---- MODULE Spec2Model ----
(***************************************************************************)
(* Dify-as-Code: the local file tree of one workspace (studio apps and one *)
(* knowledge base), the remote platform it mirrors, and the pull and push  *)
(* handlers of CommandHandler with the ConfigManager operations they call. *)
(*                                                                         *)
(* Text (names, document content) is a sequence of one-character strings,  *)
(* so that sanitizeName, path.extname and the segment stitching are        *)
(* computed character by character as the code computes them.              *)
(***************************************************************************)
EXTENDS Integers, Sequences, FiniteSets, TLC

\* ------------------------------------------------------------------------
\* Bounds of the exploration
\* ------------------------------------------------------------------------

\* number of handler invocations explored from an initial state; the clock
\* `now` that stamps last_synced_at advances by one per invocation
MaxTime == 2

\* ------------------------------------------------------------------------
\* Values
\* ------------------------------------------------------------------------

NoDir == [kind |-> "NoDir"]            \* a directory that does not exist
NoFile == [kind |-> "NoFile"]          \* a file that does not exist
Malformed == [kind |-> "Malformed"]    \* a .sync.yml whose content yaml.load rejects
NoApp == [kind |-> "NoApp"]            \* an id the remote does not know
Down == [kind |-> "Down"]              \* a remote listing whose fetch throws
Null == [kind |-> "Null"]              \* the null a lookup returns
Unreadable == [kind |-> "Unreadable"]  \* a file whose readFile throws
PlainFile == [kind |-> "File"]         \* a directory entry that is a file
NoClient == [kind |-> "NoClient"]      \* a key the client cache does not hold

\* a directory the program never creates, such as .git
HiddenDir == <<".", "g">>

W1 == <<"W", "1">>
W2 == <<"W", "2">>
W3 == <<"W", "3">>
Wsp3 == <<"W", " ", "3">>
W_3 == <<"W", "_", "3">>

\* display names an app can carry on the remote and in its DSL
Names == {W1, W2, W3, Wsp3}

\* ids the remote hands out
RemoteIds == {"r1", "r2", "r3"}

\* what .sync.yml may record as app_id: a real id, nothing, blank, placeholder
LocalIds == RemoteIds \cup {"", " ", "local-1"}

\* remote app modes
Modes == {"workflow", "advanced-chat", "chat", "completion", "agent-chat"}

AppTypes == {"chatbot", "text-generation", "agent", "chatflow", "workflow"}

\* ------------------------------------------------------------------------
\* Pure helpers of ConfigManager and types.ts
\* ------------------------------------------------------------------------

UnsafeChars == {"<", ">", ":", "\"", "/", "\\", "|", "?", "*"}
WhiteChars == {" ", "\t", "\n"}

\* /\s+/g -> '_': every maximal run of whitespace becomes one underscore
RECURSIVE CollapseWhite(_)
CollapseWhite(s) ==
    IF s = <<>> THEN <<>>
    ELSE IF Head(s) \in WhiteChars
         THEN IF Len(s) > 1 /\ s[2] \in WhiteChars
              THEN CollapseWhite(Tail(s))
              ELSE <<"_">> \o CollapseWhite(Tail(s))
         ELSE <<Head(s)>> \o CollapseWhite(Tail(s))

sanitizeName(name) ==
    CollapseWhite([i \in 1..Len(name) |->
                      IF name[i] \in UnsafeChars THEN "_" ELSE name[i]])

\* directory names of the studio folder
Dirs == {sanitizeName(n) : n \in Names} \cup {HiddenDir}

\* entry.name.startsWith('.')
startsWithDot(name) == name # <<>> /\ Head(name) = "."

APP_MODE_TO_TYPE(mode) ==
    CASE mode = "chat" -> "chatbot"
      [] mode = "completion" -> "text-generation"
      [] mode = "agent-chat" -> "agent"
      [] mode = "advanced-chat" -> "chatflow"
      [] mode = "workflow" -> "workflow"
      [] OTHER -> "workflow"

\* md5 of the DSL text: distinct contents have distinct digests
computeHash(dsl) == <<"md5", dsl>>

\* ------------------------------------------------------------------------
\* State
\* ------------------------------------------------------------------------

VARIABLES
    local,      \* studio folder: Dirs -> NoDir or [dsl, sync]
    knowledge,  \* dataset directory: [files: file -> NoFile or [text], manifest]
    registries, \* registry files: RegistryNames -> NoFile or [snapshot]
    remote,     \* remote apps: RemoteIds -> NoApp or [name, mode, body, updated_at]
    kremote,    \* remote knowledge: [up, datasets, docs]
    regRemote,  \* remote registries: name -> Down or [snapshot]
    root,       \* workspace root: [gitignore, accounts: Slots -> NoDir or account]
    platforms,  \* platform directories: PlatformDirs -> NoDir, PlainFile or [config]
    apiClients, \* the client cache: ClientKeys -> NoClient or [baseUrl, tokens, made]
                \* (tokens: the account they were issued to; made: when constructed)
    cloud,      \* remote accounts: Slots -> [email, password, workspaces]
    now,        \* the clock read by new Date()
    calls,      \* the remote calls the last app or knowledge handler issued, in order
    lastOp,     \* what the last handler was and how it ended
    inflight    \* the handler runs that wait at an await: a set of records

vars == <<local, knowledge, registries, remote, kremote, regRemote, root,
          platforms, apiClients, cloud, now, calls, lastOp, inflight>>

\* ------------------------------------------------------------------------
\* Remote gateway (DifyApiClient), as seen by the handlers
\* ------------------------------------------------------------------------

RemoteApps(rem) == {id \in RemoteIds : rem[id] # NoApp}

\* GET /console/api/apps: one entry per remote app
AppDetails(rem, id) ==
    [id |-> id, name |-> rem[id].name,
     type |-> APP_MODE_TO_TYPE(rem[id].mode), updatedAt |-> rem[id].updated_at]

\* the DSL text the remote exports for an app, with the app's updated_at
exportApp(rem, id) ==
    [dsl |-> [name |-> rem[id].name, mode |-> rem[id].mode, body |-> rem[id].body],
     updatedAt |-> rem[id].updated_at]

getAppDetail(rem, id) ==
    [name |-> rem[id].name, updatedAt |-> rem[id].updated_at, mode |-> rem[id].mode]

\* POST /console/api/apps/imports with app_id: the draft of the app takes the
\* imported content and the name the content carries
importApp(rem, id, dsl) ==
    [rem EXCEPT ![id] = [name |-> dsl.name, mode |-> @.mode, body |-> dsl.body,
                         updated_at |-> @.updated_at + 1]]

\* the id POST /console/api/apps gives a new app: one not in use
FreshId(rem) == CHOOSE id \in RemoteIds : rem[id] = NoApp

createApp(rem, name, mode) ==
    [rem EXCEPT ![FreshId(rem)] = [name |-> name, mode |-> mode, body |-> 0,
                                   updated_at |-> 1]]

\* ------------------------------------------------------------------------
\* Entity Hierarchy Store (ConfigManager), app operations
\* ------------------------------------------------------------------------

getAppSyncMetadata(loc, d) ==
    IF loc[d] = NoDir \/ loc[d].sync \in {NoFile, Malformed} THEN Null
    ELSE loc[d].sync

readAppDsl(loc, d) ==
    IF loc[d] = NoDir \/ loc[d].dsl = NoFile THEN Null ELSE loc[d].dsl

extractAppTypeFromDsl(loc, d) == APP_MODE_TO_TYPE(loc[d].dsl.mode)

\* the AppNodeData getAppsForWorkspace builds for directory d
AppNode(loc, d) ==
    LET sm == getAppSyncMetadata(loc, d) IN
    [id |-> IF sm = Null THEN "" ELSE sm.app_id,
     name |-> d,
     appType |-> IF sm = Null THEN extractAppTypeFromDsl(loc, d) ELSE sm.app_type,
     readonly |-> IF sm = Null THEN FALSE ELSE sm.readonly,
     path |-> d]

\* directories listed as apps: those that hold an app.yml
getAppsForWorkspace(loc) ==
    {d \in Dirs : loc[d] # NoDir /\ ~startsWithDot(d) /\ loc[d].dsl # NoFile}

saveAppDsl(loc, appId, appName, dsl, remoteUpdatedAt, appType, readonly, t) ==
    [loc EXCEPT ![sanitizeName(appName)] =
        [dsl |-> dsl,
         sync |-> [app_id |-> appId, app_type |-> appType, readonly |-> readonly,
                   last_synced_at |-> t, remote_updated_at |-> remoteUpdatedAt,
                   local_hash |-> computeHash(dsl)]]]

deleteApp(loc, d) == [loc EXCEPT ![d] = NoDir]

getAppSyncStatus(loc, d) ==
    IF loc[d] = NoDir \/ loc[d].sync = NoFile THEN "local-modified"
    ELSE IF loc[d].sync = Malformed THEN "local-modified"
    ELSE IF loc[d].dsl # NoFile /\ computeHash(loc[d].dsl) # loc[d].sync.local_hash
         THEN "local-modified"
    ELSE "synced"

\* ------------------------------------------------------------------------
\* Pull Reconciler: the app part of pullWorkspaceData
\* ------------------------------------------------------------------------

\* the export-and-save loop over the fetched list; `failed` are the apps whose
\* export or save throws
RECURSIVE SaveFetched(_, _, _, _, _)
\* a bug that gives the save loop up at the first app that fails
SaveFetchedUntilFailure(loc, rem, order, failed, t) ==
    LET firstFailure == IF \E i \in 1..Len(order) : order[i] \in failed
                        THEN CHOOSE i \in 1..Len(order) :
                                /\ order[i] \in failed
                                /\ \A j \in 1..(i - 1) : order[j] \notin failed
                        ELSE Len(order) + 1
        done == SubSeq(order, 1, firstFailure - 1)
        F[i \in 0..Len(done)] ==
            IF i = 0 THEN loc
            ELSE LET id == done[i]
                     ex == exportApp(rem, id)
                 IN saveAppDsl(F[i - 1], id, AppDetails(rem, id).name, ex.dsl,
                               ex.updatedAt, AppDetails(rem, id).type, FALSE, t)
    IN F[Len(done)]

SaveFetched(loc, rem, order, failed, t) ==
    IF order = <<>> THEN loc
    ELSE LET id == Head(order)
             app == AppDetails(rem, id)
             ex == exportApp(rem, id)
             next == IF id \in failed THEN loc
                     ELSE saveAppDsl(loc, id, app.name, ex.dsl, ex.updatedAt,
                                     app.type, FALSE, t)
         IN SaveFetched(next, rem, Tail(order), failed, t)

\* a bug that deletes every app without an id, whatever the remote names
DeletedByPullIgnoringNames(before, saved, rem, fetched, d) ==
    LET listedId == AppNode(before, d).id
        sm == getAppSyncMetadata(saved, d)
        appId == IF listedId # "" THEN listedId
                 ELSE IF sm = Null THEN "" ELSE sm.app_id
    IN appId = "" \/ appId \notin fetched

\* does the deletion pass remove the app that was listed in directory d
DeletedByPull(before, saved, rem, fetched, d) ==
    LET listedId == AppNode(before, d).id
        sm == getAppSyncMetadata(saved, d)
        appId == IF listedId # "" THEN listedId
                 ELSE IF sm = Null THEN "" ELSE sm.app_id
        existsOnRemote == appId # "" /\ appId \in fetched
        nameExistsOnRemote == \E id \in fetched : rem[id].name = d
    IN IF appId # "" /\ ~existsOnRemote THEN TRUE
       ELSE IF appId = "" THEN ~nameExistsOnRemote
       ELSE FALSE

PullApps(loc, rem, order, failed, t) ==
    LET localApps == getAppsForWorkspace(loc)
        fetched == {order[i] : i \in 1..Len(order)}
        saved == SaveFetched(loc, rem, order, failed, t)
    IN [d \in Dirs |->
          IF d \in localApps /\ DeletedByPull(loc, saved, rem, fetched, d)
          THEN NoDir ELSE saved[d]]

\* path.dirname/rename of an app directory to the sanitized new name; the
\* result is the studio folder and the path the caller goes on with
renameApp(loc, d, newName) ==
    LET safeName == sanitizeName(newName) IN
    IF safeName = d THEN [loc |-> loc, path |-> d]
    ELSE IF loc[safeName] # NoDir
         THEN [loc |-> [loc EXCEPT ![d] = NoDir], path |-> safeName]
    ELSE [loc |-> [loc EXCEPT ![safeName] = loc[d], ![d] = NoDir], path |-> safeName]

\* the record updateSyncMetadata starts from when there is no .sync.yml
DefaultSyncMetadata ==
    [app_id |-> "", app_type |-> "workflow", readonly |-> FALSE,
     last_synced_at |-> 0, remote_updated_at |-> 0, local_hash |-> <<>>]

\* { ...current, ...metadata }: the five given fields replace the stored ones
updateSyncMetadata(loc, d, appId, appType, t, remoteUpdatedAt, hash) ==
    LET current == IF loc[d].sync = NoFile THEN DefaultSyncMetadata ELSE loc[d].sync
    IN [loc EXCEPT ![d].sync =
          [current EXCEPT !.app_id = appId, !.app_type = appType,
                          !.last_synced_at = t,
                          !.remote_updated_at = remoteUpdatedAt,
                          !.local_hash = hash]]

\* a bug that leaves app.yml as it was before the push
writeDslNowhere(loc, d, dsl) == loc

\* vscode.workspace.fs.writeFile of app.yml in an existing directory
writeDsl(loc, d, dsl) == [loc EXCEPT ![d].dsl = dsl]

\* ------------------------------------------------------------------------
\* Push Reconciler
\* ------------------------------------------------------------------------

\* a bug that also lets chatbot apps through the type check
PushableTypesWithChatbot == {"workflow", "chatflow", "chatbot"}

\* data.appType !== 'workflow' && data.appType !== 'chatflow' rejects the push
PushableTypes == {"workflow", "chatflow"}

\* !data.id || data.id.startsWith('local-') || data.id.trim() === ''
isLocalOnly(id) == id = "" \/ id = "local-1" \/ id = " "

\* modeMapping[data.appType] || 'workflow'
ModeOfType(appType) == IF appType = "chatflow" THEN "advanced-chat" ELSE "workflow"

Choices == {"Pull First", "Force Push", "Cancel", "Dismissed"}

\* if (action !== 'Force Push') { return; }: a bug that goes on unless the
\* operator pressed Cancel
ProceedsAfterConflictUnlessCancel(choice) == choice # "Cancel"

\* after 'Pull First' is handled, a push in conflict goes on only when forced
ProceedsAfterConflict(choice) == choice = "Force Push"

\* the step of a handler that throws (a network or file-system fault); for
\* the import also what the platform answers: "import" is a first answer
\* 'failed', "pending" a first answer 'pending' whose confirmation completes,
\* "confirm" a first answer 'pending' whose confirmation is answered 'failed'
FailPoints == {"none", "check", "login", "create", "import", "pending", "confirm",
               "detail", "rename", "export", "write", "meta"}

\* response.data.status of POST /console/api/apps/imports
FirstAnswer(failAt) ==
    CASE failAt = "import" -> "failed"
      [] failAt \in {"pending", "confirm"} -> "pending"
      [] OTHER -> "completed"

\* confirmResponse.data.status of POST /console/api/apps/imports/{id}/confirm
ConfirmAnswer(failAt) == IF failAt = "confirm" THEN "failed" ELSE "completed"

\* a client that takes the answer 'pending' for a finished import
ImportWithoutConfirm(rem, id, dsl, first, confirm) ==
    [rem |-> IF first = "completed" THEN importApp(rem, id, dsl) ELSE rem,
     thrown |-> first = "failed", calls |-> <<"importApp">>]

\* DifyApiClient.importApp: the import is submitted; an answer 'failed'
\* throws; an answer 'pending' is confirmed and a confirmation answered
\* 'failed' throws; the platform applies the content when the import completes
ImportAndConfirm(rem, id, dsl, first, confirm) ==
    IF first = "failed"
    THEN [rem |-> rem, thrown |-> TRUE, calls |-> <<"importApp">>]
    ELSE IF first = "pending"
    THEN IF confirm = "failed"
         THEN [rem |-> rem, thrown |-> TRUE, calls |-> <<"importApp", "confirmImport">>]
         ELSE [rem |-> importApp(rem, id, dsl), thrown |-> FALSE,
               calls |-> <<"importApp", "confirmImport">>]
    ELSE [rem |-> importApp(rem, id, dsl), thrown |-> FALSE, calls |-> <<"importApp">>]

Result(loc, rem, cs, outcome, path, conflict) ==
    [loc |-> loc, rem |-> rem, calls |-> cs, outcome |-> outcome, path |-> path,
     conflict |-> conflict]

\* pullApp: login, export, saveAppDsl under the item's name
pullApp(loc, rem, t, d, pw, failAt) ==
    LET data == AppNode(loc, d) IN
    IF ~pw THEN Result(loc, rem, <<>>, "failed", d, FALSE)
    ELSE IF failAt = "login" THEN Result(loc, rem, <<"login">>, "failed", d, FALSE)
    ELSE IF failAt = "export" \/ data.id \notin RemoteApps(rem)
         THEN Result(loc, rem, <<"login", "exportApp">>, "failed", d, FALSE)
    ELSE LET ex == exportApp(rem, data.id) IN
         Result(saveAppDsl(loc, data.id, data.name, ex.dsl, ex.updatedAt,
                           data.appType, data.readonly, t),
                rem, <<"login", "exportApp">>, "ok", d, FALSE)

\* a bug that records the item's id, as pushApp does, after a create
RecordedAppIdOfItem(dataId, newId) == dataId

\* app_id: newApp.id in the metadata pushLocalOnlyApp writes
RecordedAppId(dataId, newId) == newId

\* the steps pushApp and pushLocalOnlyApp share after the import: detail,
\* rename, re-export, write of app.yml, update of .sync.yml.  pushApp asks for
\* the detail before the export, pushLocalOnlyApp after it.
AfterImport(loc, rem1, cs, t, d, id, metaId, appType, failAt, detailFirst, conflict) ==
    LET detail == getAppDetail(rem1, id)
        ex == exportApp(rem1, id)
        csDetail == IF detailFirst THEN cs \o <<"getAppDetail">>
                    ELSE cs \o <<"exportApp", "getAppDetail">>
        csExport == IF detailFirst THEN cs \o <<"getAppDetail", "exportApp">>
                    ELSE cs \o <<"exportApp">>
        csAll == IF detailFirst THEN csExport ELSE csDetail
        needRename == detail.name # d
        renamed == IF needRename THEN renameApp(loc, d, detail.name)
                   ELSE [loc |-> loc, path |-> d]
        written == writeDsl(renamed.loc, renamed.path, ex.dsl)
    IN IF failAt = "detail"
       THEN Result(loc, rem1, csDetail, "failed", d, conflict)
       ELSE IF failAt = "export" /\ ~detailFirst
       THEN Result(loc, rem1, csExport, "failed", d, conflict)
       ELSE IF failAt = "rename" /\ needRename
       THEN Result(loc, rem1, csDetail, "failed", d, conflict)
       ELSE IF failAt = "export"
       THEN Result(renamed.loc, rem1, csExport, "failed", renamed.path, conflict)
       ELSE IF failAt = "write"
       THEN Result(renamed.loc, rem1, csAll, "failed", renamed.path, conflict)
       ELSE IF failAt = "meta" \/ written[renamed.path].sync = Malformed
       THEN Result(written, rem1, csAll, "failed", renamed.path, conflict)
       ELSE Result(updateSyncMetadata(written, renamed.path, metaId, appType, t,
                                      ex.updatedAt, computeHash(ex.dsl)),
                   rem1, csAll, "ok", renamed.path, conflict)

pushLocalOnlyApp(loc, rem, t, d, pw, failAt) ==
    LET data == AppNode(loc, d)
        dsl == readAppDsl(loc, d)
    IN IF ~pw THEN Result(loc, rem, <<>>, "failed", d, FALSE)
       ELSE IF failAt = "login" THEN Result(loc, rem, <<"login">>, "failed", d, FALSE)
       ELSE IF failAt = "create" \/ RemoteApps(rem) = RemoteIds
       THEN Result(loc, rem, <<"login", "createApp">>, "failed", d, FALSE)
       ELSE LET newId == FreshId(rem)
                rem0 == createApp(rem, data.name, ModeOfType(data.appType))
                imp == ImportAndConfirm(rem0, newId, dsl, FirstAnswer(failAt),
                                        ConfirmAnswer(failAt))
                cs == <<"login", "createApp">> \o imp.calls
            IN IF imp.thrown THEN Result(loc, rem0, cs, "failed", d, FALSE)
               ELSE AfterImport(loc, imp.rem, cs, t, d, newId,
                                RecordedAppId(data.id, newId), data.appType,
                                failAt, FALSE, FALSE)

\* the steps of pushApp after the conflict check and its prompt: password,
\* login, import, then the steps after the import
PushStage(loc, rem, t, d, pw, failAt, csCheck, conflict) ==
    LET data == AppNode(loc, d)
        dsl == readAppDsl(loc, d)
    IN IF ~pw THEN Result(loc, rem, csCheck, "failed", d, conflict)
       ELSE IF failAt = "login"
       THEN Result(loc, rem, csCheck \o <<"login">>, "failed", d, conflict)
       ELSE IF data.id \notin RemoteApps(rem)
       THEN Result(loc, rem, csCheck \o <<"login", "importApp">>, "failed", d, conflict)
       ELSE LET imp == ImportAndConfirm(rem, data.id, dsl, FirstAnswer(failAt),
                                        ConfirmAnswer(failAt))
                cs == csCheck \o <<"login">> \o imp.calls
            IN IF imp.thrown THEN Result(loc, rem, cs, "failed", d, conflict)
               ELSE AfterImport(loc, imp.rem, cs, t, d, data.id, data.id,
                                data.appType, failAt, TRUE, conflict)

pushApp(loc, rem, t, d, pw, approve, choice, failAt) ==
    LET data == AppNode(loc, d)
        syncMeta == getAppSyncMetadata(loc, d)
        checked == syncMeta # Null /\ pw
        csCheck == IF checked THEN <<"login", "getAppDetail">> ELSE <<>>
        checkFails == checked /\ (failAt = "check" \/ data.id \notin RemoteApps(rem))
        conflict == checked /\ ~checkFails
                    /\ getAppDetail(rem, data.id).updatedAt # syncMeta.remote_updated_at
        dsl == readAppDsl(loc, d)
    IN IF data.readonly THEN Result(loc, rem, <<>>, "readonly", d, FALSE)
       ELSE IF data.appType \notin PushableTypes
       THEN Result(loc, rem, <<>>, "unsupported", d, FALSE)
       ELSE IF isLocalOnly(data.id)
       THEN IF approve THEN pushLocalOnlyApp(loc, rem, t, d, pw, failAt)
            ELSE Result(loc, rem, <<>>, "declined", d, FALSE)
       ELSE IF checkFails THEN Result(loc, rem, csCheck, "failed", d, FALSE)
       ELSE IF conflict /\ choice = "Pull First"
       THEN LET r == pullApp(loc, rem, t, d, pw, failAt)
            IN Result(r.loc, r.rem, csCheck \o r.calls,
                      IF r.outcome = "ok" THEN "pulledFirst" ELSE "failed", d, TRUE)
       ELSE IF conflict /\ ~ProceedsAfterConflict(choice)
       THEN Result(loc, rem, csCheck, "cancelled", d, TRUE)
       ELSE PushStage(loc, rem, t, d, pw, failAt, csCheck, conflict)

\* ------------------------------------------------------------------------
\* Knowledge Merge Engine (ConfigManager.saveKnowledgeDocuments)
\* ------------------------------------------------------------------------

\* chunkOverlap: number = 50
DefaultChunkOverlap == 50

\* overlapIndex >= previousEnd.length - overlapSize - 10
OverlapSlack == 10

NL == "\n"
ParagraphBreak == <<NL, NL>>
TxtExt == <<".", "t", "x", "t">>

Min(a, b) == IF a < b THEN a ELSE b

\* String.prototype.slice(-n): the last n characters
SliceLast(s, n) == IF Len(s) <= n THEN s ELSE SubSeq(s, Len(s) - n + 1, Len(s))

\* String.prototype.slice(n): what follows the first n characters
SliceFrom(s, n) == SubSeq(s, n + 1, Len(s))

\* String.prototype.lastIndexOf, zero-based, -1 when absent
lastIndexOf(s, sub) ==
    LET hits == {i \in 0..(Len(s) - Len(sub)) : SubSeq(s, i + 1, i + Len(sub)) = sub}
    IN IF hits = {} THEN -1 ELSE CHOOSE i \in hits : \A j \in hits : j <= i

\* path.extname of a name without directory part
extname(name) ==
    LET dots == {i \in 1..Len(name) : name[i] = "."}
        last == IF dots = {} THEN 0 ELSE CHOOSE i \in dots : \A j \in dots : j <= i
    IN IF last <= 1 THEN <<>> ELSE SubSeq(name, last, Len(name))

\* `${docSafeName}${ext}` with ext = path.extname(doc.name) || '.txt'
DocFile(name) ==
    sanitizeName(name) \o (IF extname(name) = <<>> THEN TxtExt ELSE extname(name))

\* [...segments].sort((a, b) => a.position - b.position): stable insertion
RECURSIVE InsertByPosition(_, _)
InsertByPosition(sorted, seg) ==
    IF sorted = <<>> THEN <<seg>>
    ELSE IF Head(sorted).position <= seg.position
         THEN <<Head(sorted)>> \o InsertByPosition(Tail(sorted), seg)
         ELSE <<seg>> \o sorted

RECURSIVE SortByPosition(_)
SortByPosition(segs) ==
    IF segs = <<>> THEN <<>>
    ELSE InsertByPosition(SortByPosition(SubSeq(segs, 1, Len(segs) - 1)),
                          segs[Len(segs)])

\* the overlap sizes the inner loop accepts, for one next segment
OverlapSizes(content, currentSegment, chunkOverlap) ==
    LET previousEnd == SliceLast(content, chunkOverlap * 2) IN
    {k \in 1..Min(chunkOverlap * 2, Len(currentSegment)) :
        LET overlapIndex == lastIndexOf(previousEnd, SubSeq(currentSegment, 1, k))
        IN overlapIndex # -1 /\ overlapIndex >= Len(previousEnd) - k - OverlapSlack}

\* one round of the outer loop: the loop counts overlapSize down and stops at
\* the first size accepted, the largest one
AppendSegment(content, currentSegment, chunkOverlap) ==
    LET sizes == OverlapSizes(content, currentSegment, chunkOverlap) IN
    IF sizes = {} THEN content \o ParagraphBreak \o currentSegment
    ELSE LET overlapSize == CHOOSE k \in sizes : \A j \in sizes : j <= k
         IN content \o ParagraphBreak \o SliceFrom(currentSegment, overlapSize)

RECURSIVE StitchFrom(_, _, _)
StitchFrom(content, rest, chunkOverlap) ==
    IF rest = <<>> THEN content
    ELSE StitchFrom(AppendSegment(content, Head(rest).content, chunkOverlap),
                    Tail(rest), chunkOverlap)

\* the content written for a document from its segments
StitchSegments(segments, chunkOverlap) ==
    IF segments = <<>> THEN <<>>
    ELSE LET sortedSegments == SortByPosition(segments)
         IN StitchFrom(sortedSegments[1].content, Tail(sortedSegments), chunkOverlap)

\* a bug that writes every fetched document, whether its file exists or not
RECURSIVE SaveDocumentsOverwriting(_, _)
SaveDocumentsOverwriting(files, documents) ==
    IF documents = <<>> THEN files
    ELSE LET doc == Head(documents)
             next == [files EXCEPT ![DocFile(doc.name)] =
                         [text |-> StitchSegments(doc.segments, DefaultChunkOverlap)]]
         IN SaveDocumentsOverwriting(next, Tail(documents))

\* the loop over the fetched documents: a document whose file exists is
\* skipped, any other is written from its segments
RECURSIVE SaveDocuments(_, _)
SaveDocuments(files, documents) ==
    IF documents = <<>> THEN files
    ELSE LET doc == Head(documents)
             file == DocFile(doc.name)
             next == IF files[file] # NoFile THEN files
                     ELSE [files EXCEPT ![file] =
                              [text |-> StitchSegments(doc.segments,
                                                       DefaultChunkOverlap)]]
         IN SaveDocuments(next, Tail(documents))

\* the manifest (.sync.yml of the dataset directory) after a save
\* a bug that writes the manifest from the fetched documents alone
MergeManifestOfRemote(manifest, datasetId, datasetName, documents, t) ==
    [dataset_id |-> datasetId, dataset_name |-> datasetName, last_synced_at |-> t,
     documents |-> [i \in 1..Len(documents) |->
                      [id |-> documents[i].id, name |-> documents[i].name,
                       file |-> DocFile(documents[i].name), is_local |-> FALSE]]]

MergeManifest(manifest, datasetId, datasetName, documents, t) ==
    LET existingDocs == IF manifest \in {NoFile, Malformed} THEN <<>>
                        ELSE manifest.documents
        remoteDocIds == {documents[i].id : i \in 1..Len(documents)}
        IsLocalOnly(d) == d.is_local /\ d.id \notin remoteDocIds
        localOnlyDocs == SelectSeq(existingDocs, IsLocalOnly)
        allDocs == [i \in 1..Len(documents) |->
                      [id |-> documents[i].id, name |-> documents[i].name,
                       file |-> DocFile(documents[i].name), is_local |-> FALSE]]
                   \o localOnlyDocs
    IN [dataset_id |-> datasetId, dataset_name |-> datasetName,
        last_synced_at |-> t, documents |-> allDocs]

saveKnowledgeDocuments(kb, datasetId, datasetName, documents, t) ==
    [files |-> SaveDocuments(kb.files, documents),
     manifest |-> MergeManifest(kb.manifest, datasetId, datasetName, documents, t)]

\* ------------------------------------------------------------------------
\* pullWorkspaceData: registries and the re-pull of a synced knowledge base
\* ------------------------------------------------------------------------

RegistryNames == {"models", "knowledge", "tools", "plugins"}

\* the one remote dataset and the name of its local directory
DatasetId == "d1"
DatasetName == <<"K", "B">>

\* names of the documents of the dataset, remote or authored locally
DocNames == {<<"a">>, <<"b", ".", "m">>, <<"n">>}

\* fileName of createDocumentByText: name.endsWith('.txt') ? name : `${name}.txt`
UploadName(name) ==
    IF Len(name) >= Len(TxtExt) /\ SliceLast(name, Len(TxtExt)) = TxtExt THEN name
    ELSE name \o TxtExt

\* the files the dataset directory can hold: those of the documents under
\* their names and under the names an upload gives them
KFiles == {DocFile(n) : n \in DocNames} \cup {DocFile(UploadName(n)) : n \in DocNames}

\* try { fetch; save } catch { log }: the file is replaced only on success
RefreshRegistry(regs, rr, name) ==
    IF rr[name] = Down THEN regs ELSE [regs EXCEPT ![name] = rr[name]]

\* the documents handed to saveKnowledgeDocuments: a document whose segment
\* fetch throws is passed with no segments and empty content
DocumentsWithContent(krem, segFail) ==
    [i \in 1..Len(krem.docs) |->
        [id |-> krem.docs[i].id, name |-> krem.docs[i].name,
         segments |-> IF krem.docs[i].id \in segFail THEN <<>>
                      ELSE krem.docs[i].segments]]

\* getSyncedKnowledgeBases: the dataset directory counts when its .sync.yml parses
IsSyncedKb(kb) == kb.manifest \notin {NoFile, Malformed}

\* a bug that re-pulls a synced dataset the fetched registry no longer lists
RepullsKbUnlisted(kb, krem) == krem.up /\ IsSyncedKb(kb)

\* does the workspace pull reach getDatasetDocuments for the dataset
RepullsKb(kb, krem) ==
    krem.up /\ IsSyncedKb(kb) /\ kb.manifest.dataset_id \in krem.datasets

\* getDatasetDocuments and the segment loop: a page of the document list
\* that cannot be fetched ends the paging loop without an error, and the
\* handler goes on with the documents collected so far (none, with one page)
FetchedDocuments(krem, docsFail, segFail) ==
    IF docsFail THEN <<>> ELSE DocumentsWithContent(krem, segFail)

PullKnowledgePart(kb, krem, docsFail, segFail, t) ==
    IF RepullsKb(kb, krem)
    THEN saveKnowledgeDocuments(kb, kb.manifest.dataset_id, kb.manifest.dataset_name,
                                FetchedDocuments(krem, docsFail, segFail), t)
    ELSE kb

\* getAllKnowledge: a page that cannot be fetched ends the paging loop, and
\* the datasets collected so far (none, with one page) are returned
getAllKnowledge(krem) == [snapshot |-> IF krem.up THEN krem.datasets ELSE {}]

PullRegistries(regs, rr, krem) ==
    LET r1 == RefreshRegistry(regs, rr, "models")
        r2 == [r1 EXCEPT !["knowledge"] = getAllKnowledge(krem)]
        r3 == RefreshRegistry(r2, rr, "tools")
    IN RefreshRegistry(r3, rr, "plugins")

RECURSIVE ExportCalls(_)
ExportCalls(order) ==
    IF order = <<>> THEN <<>> ELSE <<"exportApp">> \o ExportCalls(Tail(order))

PullCalls(order, repull, docsFail, krem) ==
    <<"login", "getAllApps">> \o ExportCalls(order)
    \o <<"getAllModels", "getAllKnowledge">>
    \o (IF repull THEN <<"getDatasetDocuments">> ELSE <<>>)
    \o (IF repull /\ ~docsFail
        THEN [i \in 1..Len(krem.docs) |-> "getDocumentSegments"] ELSE <<>>)
    \o <<"getAllTools", "getAllPlugins">>

\* ------------------------------------------------------------------------
\* Handlers
\* ------------------------------------------------------------------------

Range(seq) == {seq[i] : i \in 1..Len(seq)}

Perms(S) == {f \in [1..Cardinality(S) -> S] : \A i, j \in 1..Cardinality(S) :
                 i # j => f[i] # f[j]}

DocIds(krem) == {krem.docs[i].id : i \in 1..Len(krem.docs)}

\* ------------------------------------------------------------------------
\* Platforms (ConfigManager) and the cache of API clients
\* ------------------------------------------------------------------------

\* the platforms whose accounts the model follows, by directory
Platforms == {"P1", "P2"}
PlatformPath(p) == IF p = "P1" THEN <<"P", "1">> ELSE <<"P", "2">>

\* display names of platforms; the last two have the same sanitized form
PlatformNames == {<<"P", "1">>, <<"P", "2">>, <<"P", "/", "2">>, <<"P", "_", "2">>}
PlatformDirs == {sanitizeName(n) : n \in PlatformNames} \cup {HiddenDir}

UrlU == <<"u">>
UrlV == <<"v">>
Urls == {UrlU, UrlU \o <<"/">>, UrlV}

\* baseUrl.replace(/\/+$/, '')
RECURSIVE NormalizeUrl(_)
NormalizeUrl(baseUrl) ==
    IF baseUrl # <<>> /\ baseUrl[Len(baseUrl)] = "/"
    THEN NormalizeUrl(SubSeq(baseUrl, 1, Len(baseUrl) - 1))
    ELSE baseUrl

ClientKeys == {NormalizeUrl(u) : u \in Urls}

\* new URL(inputUrl.trim()).origin: the path, here a trailing slash, is dropped
extractBaseUrl(inputUrl) == NormalizeUrl(inputUrl)

isDirectory(entry) == entry # NoDir /\ entry # PlainFile

\* a listing that does not look at the first character of the name
getAllPlatformsWithHidden(plats) ==
    {d \in PlatformDirs : /\ isDirectory(plats[d])
                          /\ plats[d].config \notin {NoFile, Malformed, Unreadable}}

\* getAllPlatforms: the directories, not hidden, whose .platform.yml exists
\* and can be read and loaded
getAllPlatforms(plats) ==
    {d \in PlatformDirs : /\ isDirectory(plats[d])
                          /\ ~startsWithDot(d)
                          /\ plats[d].config \notin {NoFile, Malformed, Unreadable}}

\* the PlatformNodeData getAllPlatforms builds for directory d
PlatformNode(plats, d) ==
    [name |-> plats[d].config.name, url |-> plats[d].config.url, path |-> d]

\* createPlatform: throws when the path of the sanitized name exists
createPlatform(plats, name, url) ==
    LET safeName == sanitizeName(name) IN
    IF plats[safeName] # NoDir THEN [plats |-> plats, thrown |-> TRUE]
    ELSE [plats |-> [plats EXCEPT ![safeName] =
                        [config |-> [name |-> name, url |-> url]]],
          thrown |-> FALSE]

\* updatePlatform: .platform.yml of the given path is written anew
updatePlatform(plats, platformPath, name, url) ==
    IF ~isDirectory(plats[platformPath]) THEN [plats |-> plats, thrown |-> TRUE]
    ELSE [plats |-> [plats EXCEPT ![platformPath].config =
                        [name |-> name, url |-> url]],
          thrown |-> FALSE]

\* an rm that is not recursive: what lies in the directory stays
deletePlatformEntry(plats, accounts, platformPath) ==
    [plats |-> [plats EXCEPT ![platformPath] = NoDir], accounts |-> accounts]

\* deletePlatform: rm -rf of the path, the account directories in it included
deletePlatform(plats, accounts, platformPath) ==
    [plats |-> [plats EXCEPT ![platformPath] = NoDir],
     accounts |-> [sl \in DOMAIN accounts |->
                     IF PlatformPath(sl[1]) = platformPath THEN NoDir
                     ELSE accounts[sl]]]

\* deleteAccount: rm -rf of the account directory
deleteAccount(accounts, sl) == [accounts EXCEPT ![sl] = NoDir]

\* accessToken = null: the client holds no tokens
NoTokens == <<>>

\* getApiClient: the client cached under the normalized URL, constructed at
\* time t when there is none
getApiClient(clients, baseUrl, t) ==
    LET normalizedUrl == NormalizeUrl(baseUrl) IN
    IF clients[normalizedUrl] = NoClient
    THEN [clients EXCEPT ![normalizedUrl] =
             [baseUrl |-> normalizedUrl, tokens |-> NoTokens, made |-> t]]
    ELSE clients

\* removeApiClient: logout, then the key is deleted
removeApiClient(clients, baseUrl) ==
    [clients EXCEPT ![NormalizeUrl(baseUrl)] = NoClient]

\* getApiClient(baseUrl) followed by client.login for the account of slot
\* sl: a login that succeeds stores the tokens issued to the account, one
\* that fails leaves what the client holds
Connect(clients, baseUrl, sl, success, t) ==
    LET got == getApiClient(clients, baseUrl, t) IN
    [got EXCEPT ![NormalizeUrl(baseUrl)].tokens = IF success THEN sl ELSE @]

\* accountEmail of the items of the studio and knowledge folders
StudioAccount == <<"P1", sanitizeName(<<"a", "@">>)>>

\* the cache after a handler that issued the calls cs: every login is
\* preceded by getApiClient; loginFails tells that the last call, a login,
\* was refused
SessionAfter(clients, baseUrl, cs, loginFails, t) ==
    IF \A i \in 1..Len(cs) : cs[i] # "login" THEN clients
    ELSE Connect(clients, baseUrl, StudioAccount,
                 \E i \in 1..Len(cs) :
                     cs[i] = "login" /\ (i < Len(cs) \/ ~loginFails),
                 t)

\* platformUrl of the tree items below platform p
PlatformUrl(plats, p) == plats[PlatformPath(p)].config.url

\* platformUrl of the items of the studio and knowledge folders
StudioUrl(plats) == PlatformUrl(plats, "P1")

Op(op, dir, outcome, choice, conflict, path, fetched, failed) ==
    [op |-> op, dir |-> dir, outcome |-> outcome, choice |-> choice,
     conflict |-> conflict, path |-> path, fetched |-> fetched, failed |-> failed]

NoDirArg == <<>>

\* command pullWorkspace: password, login, pullWorkspaceData
PullWorkspace ==
    /\ now < MaxTime
    /\ now' = now + 1
    /\ UNCHANGED inflight
    /\ UNCHANGED <<remote, kremote, regRemote, root, platforms, cloud>>
    /\ \/ \E failAt \in {"password", "login", "list"} :
            /\ calls' = CASE failAt = "password" -> <<>>
                          [] failAt = "login" -> <<"login">>
                          [] OTHER -> <<"login", "getAllApps">>
            /\ lastOp' = Op("pullWorkspace", NoDirArg, "failed", "", FALSE,
                            NoDirArg, {}, {})
            /\ UNCHANGED <<local, knowledge, registries>>
            /\ apiClients' = SessionAfter(apiClients, StudioUrl(platforms), calls',
                                          failAt = "login", now')
       \/ \E order \in Perms(RemoteApps(remote)), failed \in SUBSET RemoteApps(remote),
             docsFail \in (IF RepullsKb(knowledge, kremote) THEN BOOLEAN ELSE {FALSE}),
             segFail \in (IF RepullsKb(knowledge, kremote)
                          THEN SUBSET DocIds(kremote) ELSE {{}}) :
            /\ local' = PullApps(local, remote, order, failed, now')
            /\ registries' = PullRegistries(registries, regRemote, kremote)
            /\ knowledge' = PullKnowledgePart(knowledge, kremote, docsFail, segFail, now')
            /\ calls' = PullCalls(order, RepullsKb(knowledge, kremote), docsFail, kremote)
            /\ lastOp' = Op("pullWorkspace", NoDirArg,
                            IF failed = {} THEN "ok" ELSE "partial", "", FALSE,
                            NoDirArg, RemoteApps(remote), failed)
            /\ apiClients' = SessionAfter(apiClients, StudioUrl(platforms), calls',
                                          FALSE, now')

\* the faults a handler run can meet: the account's password is missing, or
\* one remote call or file operation throws
Faults == {"password"} \cup FailPoints

\* command pullApp on the tree item of directory d
PullApp ==
    /\ now < MaxTime
    /\ now' = now + 1
    /\ UNCHANGED inflight
    /\ \E d \in getAppsForWorkspace(local), fault \in {"none", "password", "login", "export"} :
         LET r == pullApp(local, remote, now', d, fault # "password", fault) IN
         /\ local' = r.loc
         /\ calls' = r.calls
         /\ lastOp' = Op("pullApp", d, r.outcome, "", FALSE, d, {}, {})
         /\ apiClients' = SessionAfter(apiClients, StudioUrl(platforms), r.calls,
                                       fault = "login", now')
    /\ UNCHANGED <<knowledge, registries, remote, kremote, regRemote, root, platforms, cloud>>

\* the answers the operator can give to the prompts pushApp shows for d: the
\* create prompt is shown for a local-only app, the conflict prompt when the
\* live updated_at differs from the recorded one
Approvals(loc, d) ==
    IF isLocalOnly(AppNode(loc, d).id) THEN BOOLEAN ELSE {FALSE}

ConflictAnswers(loc, rem, d) ==
    LET data == AppNode(loc, d) IN
    IF /\ data.id \in RemoteApps(rem)
       /\ getAppSyncMetadata(loc, d).remote_updated_at # rem[data.id].updated_at
    THEN Choices ELSE {"Dismissed"}

\* command pushApp on the tree item of directory d
PushApp ==
    /\ now < MaxTime
    /\ now' = now + 1
    /\ UNCHANGED inflight
    /\ \E d \in getAppsForWorkspace(local) :
       \E fault \in Faults, approve \in Approvals(local, d),
          choice \in ConflictAnswers(local, remote, d) :
         LET r == pushApp(local, remote, now', d, fault # "password", approve,
                          choice, fault) IN
         /\ local' = r.loc
         /\ remote' = r.rem
         /\ calls' = r.calls
         /\ lastOp' = Op("pushApp", d, r.outcome, choice, r.conflict, r.path, {}, {})
         /\ apiClients' = SessionAfter(apiClients, StudioUrl(platforms), r.calls,
                                       fault = "login", now')
    /\ UNCHANGED <<knowledge, registries, kremote, regRemote, root, platforms, cloud>>

\* the knowledge node the tree shows for the dataset: one per entry of the
\* stored knowledge.yml
HasKnowledgeNode(regs) ==
    regs["knowledge"] # NoFile /\ DatasetId \in regs["knowledge"].snapshot

\* command pullKnowledge on the knowledge node of the dataset
PullKnowledge ==
    /\ now < MaxTime
    /\ now' = now + 1
    /\ UNCHANGED inflight
    /\ HasKnowledgeNode(registries)
    /\ UNCHANGED <<local, registries, remote, kremote, regRemote, root, platforms, cloud>>
    /\ \/ \E fault \in {"password", "login"} :
            /\ calls' = IF fault = "password" THEN <<>> ELSE <<"login">>
            /\ lastOp' = Op("pullKnowledge", NoDirArg, "failed", "", FALSE,
                            NoDirArg, {}, {})
            /\ UNCHANGED knowledge
            /\ apiClients' = SessionAfter(apiClients, StudioUrl(platforms), calls',
                                          fault = "login", now')
       \/ \E docsFail \in BOOLEAN, segFail \in SUBSET DocIds(kremote) :
            /\ DatasetId \notin kremote.datasets => docsFail
            /\ docsFail => segFail = {}
            /\ knowledge' = saveKnowledgeDocuments(knowledge, DatasetId, DatasetName,
                                 FetchedDocuments(kremote, docsFail, segFail), now')
            /\ calls' = <<"login", "getDatasetDocuments">>
                         \o [i \in 1..Len(FetchedDocuments(kremote, docsFail, segFail))
                                |-> "getDocumentSegments"]
            /\ lastOp' = Op("pullKnowledge", NoDirArg, "ok", "", FALSE, NoDirArg,
                            IF docsFail THEN {} ELSE DocIds(kremote), segFail)
            /\ apiClients' = SessionAfter(apiClients, StudioUrl(platforms), calls',
                                          FALSE, now')

\* ------------------------------------------------------------------------
\* Documents authored locally and the push of a knowledge base
\* ------------------------------------------------------------------------

\* `local-${Date.now()}` at time t; local-0 is an id given before time 0
LocalDocIds == {"local-0", "local-1", "local-2", "local-3"}
LocalIdAt(t) == CASE t = 1 -> "local-1" [] t = 2 -> "local-2" [] OTHER -> "local-3"

\* the ids the remote gives to new documents, in the order it gives them
RemoteDocIds == <<"x1", "x2", "x3", "x4">>

FreshDocId(krem) ==
    RemoteDocIds[CHOOSE i \in 1..Len(RemoteDocIds) :
                    /\ RemoteDocIds[i] \notin DocIds(krem)
                    /\ \A j \in 1..(i - 1) : RemoteDocIds[j] \in DocIds(krem)]

\* the remote dataset after a document is created from the uploaded text
createDocumentByText(krem, name, text) ==
    [krem EXCEPT !.docs = Append(@, [id |-> FreshDocId(krem), name |-> UploadName(name),
                                     segments |-> <<[position |-> 1, content |-> text]>>])]

\* the segments of the document are deleted and one segment with the text added
updateDocumentByText(krem, documentId, text) ==
    [krem EXCEPT !.docs = [i \in 1..Len(@) |->
        IF @[i].id = documentId
        THEN [@[i] EXCEPT !.segments = <<[position |-> 1, content |-> text]>>]
        ELSE @[i]]]

\* createLocalDocument: the file and an entry with a placeholder id; throws
\* when the file exists
createLocalDocument(kb, datasetName, documentName, content, t) ==
    LET file == DocFile(documentName)
        syncMetadata == IF kb.manifest \in {NoFile, Malformed}
                        THEN [dataset_id |-> "", dataset_name |-> datasetName,
                              last_synced_at |-> t, documents |-> <<>>]
                        ELSE kb.manifest
    IN IF kb.files[file] # NoFile THEN [kb |-> kb, thrown |-> TRUE]
       ELSE [kb |-> [files |-> [kb.files EXCEPT ![file] = [text |-> content]],
                     manifest |-> [syncMetadata EXCEPT
                         !.documents = Append(@, [id |-> LocalIdAt(t),
                                                  name |-> documentName,
                                                  file |-> file, is_local |-> TRUE]),
                         !.last_synced_at = t]],
             thrown |-> FALSE]

\* readKnowledgeDocuments: the manifest and, for each entry whose file exists,
\* the entry with the content of the file
readKnowledgeDocuments(kb) ==
    IF kb.manifest \in {NoFile, Malformed}
    THEN [syncMetadata |-> Null, documents |-> <<>>]
    ELSE LET Exists(docMeta) == kb.files[docMeta.file] # NoFile
             present == SelectSeq(kb.manifest.documents, Exists)
         IN [syncMetadata |-> kb.manifest,
             documents |-> [i \in 1..Len(present) |->
                 [id |-> present[i].id, name |-> present[i].name,
                  file |-> present[i].file, content |-> kb.files[present[i].file].text,
                  is_local |-> present[i].is_local]]]

\* localDoc.is_local || localDoc.id.startsWith('local-')
isLocalOnlyDocument(localDoc) == localDoc.is_local \/ localDoc.id \in LocalDocIds

\* the loop of pushKnowledge over the local documents: create what is local
\* only or not in the remote list, update the rest; a call in failed throws
\* and is logged
RECURSIVE PushDocuments(_, _, _, _)
PushDocuments(krem, documents, remoteDocIds, failed) ==
    IF documents = <<>> THEN krem
    ELSE LET localDoc == Head(documents)
             next == IF localDoc.id \in failed THEN krem
                     ELSE IF isLocalOnlyDocument(localDoc)
                             \/ localDoc.id \notin remoteDocIds
                     THEN createDocumentByText(krem, localDoc.name, localDoc.content)
                     ELSE updateDocumentByText(krem, localDoc.id, localDoc.content)
         IN PushDocuments(next, Tail(documents), remoteDocIds, failed)

\* the names a new document can be given: those with an extension
NewDocumentNames == {n \in DocNames : extname(n) # <<>>}

\* command createKnowledgeDocument on the knowledge node of the dataset
CreateKnowledgeDocument ==
    /\ now < MaxTime
    /\ now' = now + 1
    /\ UNCHANGED inflight
    /\ HasKnowledgeNode(registries)
    /\ calls' = <<>>
    /\ UNCHANGED <<local, registries, remote, kremote, regRemote, root, platforms, apiClients, cloud>>
    /\ IF knowledge.manifest = NoFile
       THEN /\ lastOp' = Op("createKnowledgeDocument", NoDirArg, "notSynced", "", FALSE,
                            NoDirArg, {}, {})
            /\ UNCHANGED knowledge
       ELSE \E documentName \in NewDocumentNames :
               LET r == createLocalDocument(knowledge, DatasetName, documentName,
                                            <<"y">>, now')
               IN /\ knowledge' = r.kb
                  /\ lastOp' = Op("createKnowledgeDocument", NoDirArg,
                                  IF r.thrown THEN "failed" ELSE "ok", "", FALSE,
                                  DocFile(documentName), {}, {})

\* the ids of the local documents a push hands to the remote
PushedIds(kb) ==
    {readKnowledgeDocuments(kb).documents[i].id :
        i \in 1..Len(readKnowledgeDocuments(kb).documents)}

\* command pushKnowledge on the knowledge node of the dataset
PushKnowledge ==
    /\ now < MaxTime
    /\ now' = now + 1
    /\ UNCHANGED inflight
    /\ HasKnowledgeNode(registries)
    /\ UNCHANGED <<local, knowledge, registries, remote, regRemote, root, platforms, cloud>>
    /\ IF knowledge.manifest = NoFile
       THEN /\ lastOp' = Op("pushKnowledge", NoDirArg, "notSynced", "", FALSE,
                            NoDirArg, {}, {})
            /\ calls' = <<>>
            /\ UNCHANGED <<kremote, apiClients>>
       ELSE \/ /\ lastOp' = Op("pushKnowledge", NoDirArg, "cancelled", "Cancel", FALSE,
                               NoDirArg, {}, {})
               /\ calls' = <<>>
               /\ UNCHANGED <<kremote, apiClients>>
            \/ \E fault \in {"password", "login"} :
                  /\ lastOp' = Op("pushKnowledge", NoDirArg, "failed", "Push", FALSE,
                                  NoDirArg, {}, {})
                  /\ calls' = IF fault = "password" THEN <<>> ELSE <<"login">>
                  /\ UNCHANGED kremote
                  /\ apiClients' = SessionAfter(apiClients, StudioUrl(platforms),
                                                calls', fault = "login", now')
            \/ /\ readKnowledgeDocuments(knowledge).syncMetadata = Null
               /\ lastOp' = Op("pushKnowledge", NoDirArg, "failed", "Push", FALSE,
                               NoDirArg, {}, {})
               /\ calls' = <<"login">>
               /\ UNCHANGED kremote
               /\ apiClients' = SessionAfter(apiClients, StudioUrl(platforms), calls',
                                             FALSE, now')
            \/ /\ readKnowledgeDocuments(knowledge).syncMetadata # Null
               /\ \E docsFail \in BOOLEAN, failed \in SUBSET PushedIds(knowledge) :
                     /\ DatasetId \notin kremote.datasets =>
                           docsFail /\ failed = PushedIds(knowledge)
                     /\ Len(kremote.docs) + Cardinality(PushedIds(knowledge) \ failed)
                           <= Len(RemoteDocIds)
                     /\ kremote' = PushDocuments(
                                       kremote, readKnowledgeDocuments(knowledge).documents,
                                       IF docsFail THEN {} ELSE DocIds(kremote), failed)
                     /\ calls' = <<"login", "getDatasetDocuments">>
                     /\ lastOp' = Op("pushKnowledge", NoDirArg, "ok", "Push", FALSE,
                                     NoDirArg, PushedIds(knowledge) \ failed, failed)
                     /\ apiClients' = SessionAfter(apiClients, StudioUrl(platforms),
                                                   calls', FALSE, now')

\* ------------------------------------------------------------------------
\* Accounts and workspaces: the tree above the studio folders
\* ------------------------------------------------------------------------

EmailA == <<"a", "@">>
EmailB == <<"b", "@">>
Emails == {EmailA, EmailB}

\* an account lives in platform/sanitizeName(email)
Slot(platform, email) == <<platform, sanitizeName(email)>>

Slots == {Slot("P1", EmailA), Slot("P1", EmailB), Slot("P2", EmailA)}

Passwords == {"pw1", "pw2"}

\* no password: null, undefined and '' are all falsy
NoPassword == ""

WsIds == {"w1", "w2", "w3"}
WsNameA == <<"A">>
WsNameB == <<"B">>
WsNames == {WsNameA, WsNameB}
WsDirs == {sanitizeName(n) : n \in WsNames} \cup {HiddenDir}

\* yaml.dump({ password }) and yaml.load of it
DumpSecrets(password) == [text |-> <<"password", ":", " ", password, "\n">>]
LoadSecrets(file) == [password |-> file.text[4]]

\* the ignore rule, one token of the ignore-list text
Rule == "**/.secrets.yml"

RECURSIVE TrimLeft(_)
TrimLeft(content) ==
    IF content # <<>> /\ Head(content) \in {" ", "\n"} THEN TrimLeft(Tail(content))
    ELSE content

RECURSIVE TrimRight(_)
TrimRight(content) ==
    IF content # <<>> /\ content[Len(content)] \in {" ", "\n"}
    THEN TrimRight(SubSeq(content, 1, Len(content) - 1))
    ELSE content

Trim(content) == TrimRight(TrimLeft(content))

\* content.includes(rule): the rule occurs somewhere in the text
Includes(content, rule) == \E i \in 1..Len(content) : content[i] = rule

\* ensureGitignore: a write that throws is caught and logged
ensureGitignore(gitignore, writeFails) ==
    LET content == IF gitignore = NoFile THEN <<>> ELSE gitignore.text
        newContent == Trim(content)
                      \o (IF Trim(content) # <<>> THEN <<"\n">> ELSE <<>>)
                      \o <<Rule, "\n">>
    IN IF Includes(content, Rule) \/ writeFails THEN gitignore
       ELSE [text |-> newContent]

NoWorkspaces == [d \in WsDirs |-> NoDir]

NoRegistries == [n \in RegistryNames |-> NoFile]

EmptyStudio == [d \in Dirs |-> NoDir]

\* createAccount: the directory, .account.yml and .secrets.yml
NewAccount(email, password) ==
    [email |-> email, secret |-> DumpSecrets(password), ws |-> NoWorkspaces]

getAccountPassword(acct) ==
    IF acct.secret = NoFile THEN NoPassword ELSE LoadSecrets(acct.secret).password

updateAccount(acct, email, password) ==
    [acct EXCEPT !.email = email,
                 !.secret = IF password = NoPassword THEN @ ELSE DumpSecrets(password)]

\* login of email with password at the platform
login(cl, platform, email, password) ==
    /\ Slot(platform, email) \in Slots
    /\ cl[Slot(platform, email)].password = password

\* getWorkspacesForAccount: the directories that hold a .workspace.yml
getWorkspacesForAccount(acct) ==
    {d \in WsDirs : /\ acct.ws[d] # NoDir
                    /\ ~startsWithDot(d)
                    /\ acct.ws[d].config \notin {NoFile, Malformed, Unreadable}}

\* saveWorkspace: the directory of the sanitized name gets the config of the
\* remote workspace; what the directory already holds stays in it
saveWorkspace(acct, workspaceId, workspaceName, role) ==
    LET d == sanitizeName(workspaceName)
        config == [id |-> workspaceId, name |-> workspaceName, role |-> role]
    IN [acct EXCEPT !.ws[d] =
           IF @ = NoDir
           THEN [config |-> config, studio |-> EmptyStudio, registries |-> NoRegistries]
           ELSE [@ EXCEPT !.config = config]]

deleteWorkspace(acct, d) == [acct EXCEPT !.ws[d] = NoDir]

\* pullWorkspaceData on the workspace directory d of the account; the
\* directory holds no synced dataset
pullWorkspaceData(acct, d, rem, rr, krem, order, failed, t) ==
    [acct EXCEPT !.ws[d].studio = PullApps(@, rem, order, failed, t),
                 !.ws[d].registries = PullRegistries(@, rr, krem)]

\* the loop of pullAccountData over the remote workspaces; getAllApps throws
\* in the failAt-th round, which ends the loop and the pull
RECURSIVE PullWorkspaces(_, _, _, _, _, _, _, _, _, _)
PullWorkspaces(acct, wss, i, failAt, rem, rr, krem, order, failed, t) ==
    IF i > Len(wss) THEN [acct |-> acct, thrown |-> FALSE]
    ELSE LET saved == saveWorkspace(acct, wss[i].id, wss[i].name, wss[i].role)
         IN IF i = failAt THEN [acct |-> saved, thrown |-> TRUE]
            ELSE PullWorkspaces(
                     pullWorkspaceData(saved, sanitizeName(wss[i].name), rem, rr, krem,
                                       order, failed, t),
                     wss, i + 1, failAt, rem, rr, krem, order, failed, t)

\* the deletion pass of pullAccountData over the workspaces listed before
\* the loop
DeleteUnlisted(before, after, remoteWorkspaceIds) ==
    [after EXCEPT !.ws = [d \in WsDirs |->
        IF d \in getWorkspacesForAccount(before)
           /\ before.ws[d].config.id \notin remoteWorkspaceIds
        THEN NoDir ELSE after.ws[d]]]

\* DifyApiClient.getWorkspaces: the list of the account's workspaces; when the
\* list request fails ("profile") the account profile is asked and its current
\* tenant is returned as the only workspace; the call throws when both
\* requests fail ("workspaces") or the profile names no tenant
getWorkspaces(all, fault) ==
    IF fault = "workspaces" \/ (fault = "profile" /\ all = <<>>)
    THEN [thrown |-> TRUE, workspaces |-> <<>>]
    ELSE IF fault = "profile" THEN [thrown |-> FALSE, workspaces |-> <<all[1]>>]
    ELSE [thrown |-> FALSE, workspaces |-> all]

\* pullAccountData: fault names the call that throws ("none" when none does);
\* error is what the caller's catch is given
pullAccountData(acct, cl, platform, rem, rr, krem, fault, failAt, order, failed, t) ==
    LET password == getAccountPassword(acct)
        listed == getWorkspaces(cl[Slot(platform, acct.email)].workspaces, fault)
        wss == listed.workspaces
        ids == {wss[i].id : i \in 1..Len(wss)}
        looped == PullWorkspaces(acct, wss, 1, failAt, rem, rr, krem, order, failed, t)
    IN IF password = NoPassword
       THEN [acct |-> acct, thrown |-> TRUE, error |-> "Account password not found"]
       ELSE IF fault = "login" \/ ~login(cl, platform, acct.email, password)
       THEN [acct |-> acct, thrown |-> TRUE, error |-> "Login failed"]
       ELSE IF listed.thrown
       THEN [acct |-> acct, thrown |-> TRUE, error |-> "getWorkspaces"]
       ELSE IF looped.thrown
       THEN [acct |-> looped.acct, thrown |-> TRUE, error |-> "getAllApps"]
       ELSE [acct |-> DeleteUnlisted(acct, looped.acct, ids), thrown |-> FALSE,
             error |-> ""]

\* getAccountsForPlatform: the account directories of the platform
getAccountsForPlatform(accounts, platform) ==
    {sl \in Slots : sl[1] = platform /\ accounts[sl] # NoDir}

\* the loop of pullPlatform: an account pull that throws ends the loop
RECURSIVE PullInTurn(_, _, _, _, _, _, _, _, _, _)
PullInTurn(accounts, cl, turn, rem, rr, krem, faults, order, failed, t) ==
    IF turn = <<>>
    THEN [accounts |-> accounts, pulled |-> {}, thrown |-> FALSE, tried |-> <<>>]
    ELSE LET sl == Head(turn)
             r == pullAccountData(accounts[sl], cl, sl[1], rem, rr, krem, faults[sl],
                                  0, order, failed, t)
             next == [accounts EXCEPT ![sl] = r.acct]
             this == <<[sl |-> sl, error |-> r.error]>>
         IN IF r.thrown
            THEN [accounts |-> next, pulled |-> {}, thrown |-> TRUE, tried |-> this]
            ELSE LET rest == PullInTurn(next, cl, Tail(turn), rem, rr, krem, faults,
                                        order, failed, t)
                 IN [rest EXCEPT !.pulled = @ \cup {sl}, !.tried = this \o @]

\* the loop of pullAll: an account pull that throws is logged
RECURSIVE PullEach(_, _, _, _, _, _, _, _, _, _)
PullEach(accounts, cl, turn, rem, rr, krem, faults, order, failed, t) ==
    IF turn = <<>>
    THEN [accounts |-> accounts, pulled |-> {}, thrown |-> FALSE, tried |-> <<>>]
    ELSE LET sl == Head(turn)
             r == pullAccountData(accounts[sl], cl, sl[1], rem, rr, krem, faults[sl],
                                  0, order, failed, t)
             next == [accounts EXCEPT ![sl] = r.acct]
             this == <<[sl |-> sl, error |-> r.error]>>
             rest == PullEach(next, cl, Tail(turn), rem, rr, krem, faults, order,
                              failed, t)
         IN IF r.thrown THEN [rest EXCEPT !.tried = this \o @]
            ELSE [rest EXCEPT !.pulled = @ \cup {sl}, !.tried = this \o @]

\* the export-and-save loops of addAccountToPlatform over the workspaces:
\* no deletion pass, the registries after the apps
RECURSIVE AddWorkspaces(_, _, _, _, _, _, _, _, _, _)
AddWorkspaces(acct, wss, i, failAt, rem, rr, krem, order, failed, t) ==
    IF i > Len(wss) THEN acct
    ELSE LET saved == saveWorkspace(acct, wss[i].id, wss[i].name, wss[i].role)
             d == sanitizeName(wss[i].name)
             pulled == [saved EXCEPT
                          !.ws[d].studio = SaveFetched(@, rem, order, failed, t),
                          !.ws[d].registries = PullRegistries(@, rr, krem)]
         IN IF i = failAt THEN saved
            ELSE AddWorkspaces(pulled, wss, i + 1, failAt, rem, rr, krem, order,
                               failed, t)

\* the cache after pullAccountData of the account of slot sl ended with
\* error: the client is asked for once the password is found
ConnectAccount(clients, plats, sl, error, t) ==
    IF error = "Account password not found" THEN clients
    ELSE Connect(clients, PlatformUrl(plats, sl[1]), sl, error # "Login failed", t)

RECURSIVE ConnectEach(_, _, _, _)
ConnectEach(clients, plats, tried, t) ==
    IF tried = <<>> THEN clients
    ELSE ConnectEach(ConnectAccount(clients, plats, Head(tried).sl, Head(tried).error, t),
                     plats, Tail(tried), t)

\* the platform items the tree shows
ListedPlatform(plats, p) == PlatformPath(p) \in getAllPlatforms(plats)

\* the accounts a multi-account pull can still reach: the password is stored
\* and the remote accepts it
CanLogin(accounts, cl, sl) ==
    /\ accounts[sl] # NoDir
    /\ getAccountPassword(accounts[sl]) # NoPassword
    /\ login(cl, sl[1], accounts[sl].email, getAccountPassword(accounts[sl]))

\* command addAccount on a platform: login, createAccount, then every
\* workspace of the account with its apps and registries
AddAccount ==
    /\ now < MaxTime
    /\ now' = now + 1
    /\ UNCHANGED inflight
    /\ UNCHANGED <<local, knowledge, registries, remote, kremote, regRemote, platforms,
                 cloud>>
    /\ \E platform \in Platforms, email \in Emails, password \in Passwords,
          fault \in {"none", "login", "gitignore", "workspaces", "apps"},
          failed \in SUBSET RemoteApps(remote) :
         LET sl == Slot(platform, email)
             wss == cloud[sl].workspaces
             order == CHOOSE o \in Perms(RemoteApps(remote)) : TRUE
             created == NewAccount(email, password)
             failAt == IF fault = "apps" THEN 1 ELSE 0
             filled == IF fault = "workspaces" THEN created
                       ELSE AddWorkspaces(created, wss, 1, failAt, remote, regRemote,
                                          kremote, order, failed, now')
         IN /\ sl \in Slots
            /\ ListedPlatform(platforms, platform)
            /\ apiClients' = Connect(apiClients, PlatformUrl(platforms, platform), sl,
                                     fault # "login"
                                     /\ login(cloud, platform, email, password),
                                     now')
            /\ fault # "none" => login(cloud, platform, email, password)
            /\ failed # {} => fault = "none"
            /\ IF fault = "login" \/ ~login(cloud, platform, email, password)
                  \/ root.accounts[sl] # NoDir
               THEN /\ UNCHANGED root
                    /\ calls' = <<>>
                    /\ lastOp' = Op("addAccount", sl, "refused", password, FALSE,
                                    NoDirArg, {}, {})
               ELSE /\ root' = [gitignore |-> ensureGitignore(root.gitignore,
                                                              fault = "gitignore"),
                                accounts |-> [root.accounts EXCEPT ![sl] = filled]]
                    /\ calls' = <<>>
                    /\ lastOp' = Op("addAccount", sl,
                                    IF fault \in {"workspaces", "apps"} THEN "failed"
                                    ELSE "ok",
                                    password, FALSE, NoDirArg, {}, failed)

\* command editAccount: the e-mail, and the password when one is entered
EditAccount ==
    /\ now < MaxTime
    /\ now' = now + 1
    /\ UNCHANGED inflight
    /\ UNCHANGED <<local, knowledge, registries, remote, kremote, regRemote, platforms,
                 cloud>>
    /\ \E sl \in Slots, email \in Emails, password \in Passwords \cup {NoPassword} :
         /\ root.accounts[sl] # NoDir
         /\ ListedPlatform(platforms, sl[1])
         /\ UNCHANGED apiClients
         /\ root' = [root EXCEPT !.accounts[sl] = updateAccount(@, email, password)]
         /\ calls' = <<>>
         /\ lastOp' = Op("editAccount", sl, "ok", password, FALSE, NoDirArg, {}, {})

\* command deleteAccount, confirmed
DeleteAccount ==
    /\ now < MaxTime
    /\ now' = now + 1
    /\ UNCHANGED inflight
    /\ UNCHANGED <<local, knowledge, registries, remote, kremote, regRemote, platforms,
                 cloud>>
    /\ \E sl \in Slots :
         /\ root.accounts[sl] # NoDir
         /\ ListedPlatform(platforms, sl[1])
         /\ UNCHANGED apiClients
         /\ root' = [root EXCEPT !.accounts = deleteAccount(@, sl)]
         /\ calls' = <<>>
         /\ lastOp' = Op("deleteAccount", sl, "ok", "", FALSE, NoDirArg, {}, {})

\* command pullAccount on the account of slot sl
PullAccount ==
    /\ now < MaxTime
    /\ now' = now + 1
    /\ UNCHANGED inflight
    /\ UNCHANGED <<local, knowledge, registries, remote, kremote, regRemote, platforms,
                 cloud>>
    /\ \E sl \in Slots, fault \in {"none", "login", "workspaces", "profile"},
          failAt \in 0..2,
          failed \in SUBSET RemoteApps(remote) :
         /\ root.accounts[sl] # NoDir
         /\ ListedPlatform(platforms, sl[1])
         /\ fault # "none" => CanLogin(root.accounts, cloud, sl) /\ failAt = 0
         /\ failAt # 0 =>
               /\ CanLogin(root.accounts, cloud, sl)
               /\ failAt <= Len(cloud[Slot(sl[1], root.accounts[sl].email)].workspaces)
         /\ failed # {} => fault = "none" /\ failAt = 0
         /\ LET order == CHOOSE o \in Perms(RemoteApps(remote)) : TRUE
                r == pullAccountData(root.accounts[sl], cloud, sl[1], remote, regRemote,
                                     kremote, fault, failAt, order, failed, now')
            IN /\ root' = [root EXCEPT !.accounts[sl] = r.acct]
               /\ apiClients' = ConnectAccount(apiClients, platforms, sl, r.error, now')
               /\ calls' = <<>>
               /\ lastOp' = Op("pullAccount", sl, IF r.thrown THEN "failed" ELSE "ok",
                               IF ~r.thrown /\ fault = "profile" THEN "profile"
                               ELSE r.error,
                               FALSE, NoDirArg,
                               IF r.thrown THEN {} ELSE {sl}, failed)

\* the faults of a multi-account pull: per account, its login call may throw
LoginFaults == [Slots -> {"none", "login"}]

\* command pullPlatform on a platform that has accounts
PullPlatform ==
    /\ now < MaxTime
    /\ now' = now + 1
    /\ UNCHANGED inflight
    /\ UNCHANGED <<local, knowledge, registries, remote, kremote, regRemote, platforms,
                 cloud>>
    /\ \E platform \in Platforms :
       \E turn \in Perms(getAccountsForPlatform(root.accounts, platform)),
          faults \in LoginFaults :
         /\ turn # <<>>
         /\ ListedPlatform(platforms, platform)
         /\ \A sl \in Slots : faults[sl] = "login" =>
               sl[1] = platform /\ CanLogin(root.accounts, cloud, sl)
         /\ LET order == CHOOSE o \in Perms(RemoteApps(remote)) : TRUE
                r == PullInTurn(root.accounts, cloud, turn, remote, regRemote, kremote,
                                faults, order, {}, now')
            IN /\ root' = [root EXCEPT !.accounts = r.accounts]
               /\ apiClients' = ConnectEach(apiClients, platforms, r.tried, now')
               /\ calls' = <<>>
               /\ lastOp' = Op("pullPlatform", platform,
                               IF r.thrown THEN "failed" ELSE "ok", "", FALSE,
                               NoDirArg, r.pulled,
                               {sl \in Range(turn) : faults[sl] = "login"})

\* command pullAll over the platforms and their accounts
PullAll ==
    /\ now < MaxTime
    /\ now' = now + 1
    /\ UNCHANGED inflight
    /\ UNCHANGED <<local, knowledge, registries, remote, kremote, regRemote, platforms,
                 cloud>>
    /\ \E turn1 \in Perms(IF ListedPlatform(platforms, "P1")
                            THEN getAccountsForPlatform(root.accounts, "P1") ELSE {}),
          turn2 \in Perms(IF ListedPlatform(platforms, "P2")
                            THEN getAccountsForPlatform(root.accounts, "P2") ELSE {}),
          faults \in LoginFaults :
         /\ turn1 \o turn2 # <<>>
         /\ \A sl \in Slots : faults[sl] = "login" => CanLogin(root.accounts, cloud, sl)
         /\ LET order == CHOOSE o \in Perms(RemoteApps(remote)) : TRUE
                r == PullEach(root.accounts, cloud, turn1 \o turn2, remote, regRemote,
                              kremote, faults, order, {}, now')
            IN /\ root' = [root EXCEPT !.accounts = r.accounts]
               /\ apiClients' = ConnectEach(apiClients, platforms, r.tried, now')
               /\ calls' = <<>>
               /\ lastOp' = Op("pullAll", NoDirArg, "ok", "", FALSE, NoDirArg, r.pulled,
                               {sl \in Range(turn1 \o turn2) : faults[sl] = "login"})

\* the remote renames a workspace of an account
RenameRemoteWorkspace ==
    /\ now < MaxTime
    /\ now' = now + 1
    /\ UNCHANGED inflight
    /\ UNCHANGED <<local, knowledge, registries, remote, kremote, regRemote, root,
                 platforms, apiClients>>
    /\ \E sl \in Slots, name \in WsNames :
       \E i \in 1..Len(cloud[sl].workspaces) :
         /\ cloud[sl].workspaces[i].name # name
         /\ cloud' = [cloud EXCEPT ![sl].workspaces[i].name = name]
         /\ calls' = <<>>
         /\ lastOp' = Op("renameRemoteWorkspace", sl, "ok", "", FALSE, NoDirArg, {}, {})

\* the steps a run of the platform commands is followed for
MaxPlatformTime == 3

\* command addPlatform, self-hosted: name and URL are entered, the URL is cut
\* to its origin; when the platform does not answer the operator may give
\* up.  The prompt that follows a success is answered with Later; Add
\* Account goes on as addAccount does.
AddPlatform ==
    /\ now < MaxPlatformTime
    /\ now' = now + 1
    /\ UNCHANGED inflight
    /\ calls' = <<>>
    /\ UNCHANGED <<local, knowledge, registries, remote, kremote, regRemote, root,
                   apiClients, cloud>>
    /\ \E name \in PlatformNames, inputUrl \in Urls, proceed \in BOOLEAN :
         LET url == extractBaseUrl(inputUrl)
             r == createPlatform(platforms, name, url)
         IN IF ~proceed
            THEN /\ UNCHANGED platforms
                 /\ lastOp' = Op("addPlatform", sanitizeName(name), "cancelled", "",
                                 FALSE, NoDirArg, {}, {})
            ELSE /\ platforms' = r.plats
                 /\ lastOp' = Op("addPlatform", sanitizeName(name),
                                 IF r.thrown THEN "failed" ELSE "ok", "", FALSE,
                                 NoDirArg, {}, {})

\* command editPlatform on a platform item: name and URL as entered
EditPlatform ==
    /\ now < MaxPlatformTime
    /\ now' = now + 1
    /\ UNCHANGED inflight
    /\ calls' = <<>>
    /\ UNCHANGED <<local, knowledge, registries, remote, kremote, regRemote, root,
                   apiClients, cloud>>
    /\ \E d \in getAllPlatforms(platforms), name \in PlatformNames, url \in Urls :
         LET r == updatePlatform(platforms, PlatformNode(platforms, d).path, name, url)
         IN /\ platforms' = r.plats
            /\ lastOp' = Op("editPlatform", d, IF r.thrown THEN "failed" ELSE "ok", "",
                            FALSE, NoDirArg, {}, {})

\* command deletePlatform on a platform item: once confirmed, the client of
\* the item's URL is removed, then the directory; rmFails is an rm that throws
DeletePlatform ==
    /\ now < MaxPlatformTime
    /\ now' = now + 1
    /\ UNCHANGED inflight
    /\ calls' = <<>>
    /\ UNCHANGED <<local, knowledge, registries, remote, kremote, regRemote, cloud>>
    /\ \E d \in getAllPlatforms(platforms), confirm \in BOOLEAN, rmFails \in BOOLEAN :
         LET data == PlatformNode(platforms, d)
             r == deletePlatform(platforms, root.accounts, data.path)
         IN IF ~confirm
            THEN /\ ~rmFails
                 /\ UNCHANGED <<platforms, root, apiClients>>
                 /\ lastOp' = Op("deletePlatform", d, "cancelled", "", FALSE,
                                 NoDirArg, {}, {})
            ELSE /\ apiClients' = removeApiClient(apiClients, data.url)
                 /\ platforms' = IF rmFails THEN platforms ELSE r.plats
                 /\ root' = IF rmFails THEN root ELSE [root EXCEPT !.accounts = r.accounts]
                 /\ lastOp' = Op("deletePlatform", d, IF rmFails THEN "failed" ELSE "ok",
                                 "Delete", FALSE, NoDirArg, {}, {})

\* ------------------------------------------------------------------------
\* Initial states: a studio folder and a remote drawn from bounded sets
\* ------------------------------------------------------------------------

Dsl(name, mode, body) == [name |-> name, mode |-> mode, body |-> body]

Sync(id, mode, ua, dsl) ==
    [app_id |-> id, app_type |-> APP_MODE_TO_TYPE(mode), readonly |-> FALSE,
     last_synced_at |-> 0, remote_updated_at |-> ua, local_hash |-> computeHash(dsl)]

RemoteApp(name, mode, body, ua) ==
    [name |-> name, mode |-> mode, body |-> body, updated_at |-> ua]

\* a directory as a pull of (id, name, mode, body 1, updated_at 1) left it
Pulled(id, name, mode) ==
    [dsl |-> Dsl(name, mode, 1), sync |-> Sync(id, mode, 1, Dsl(name, mode, 1))]

InitW1 == {NoDir, Pulled("r1", W1, "workflow"),
           \* edited since the pull: new body, and the DSL now names the app W2
           [dsl |-> Dsl(W2, "workflow", 2), sync |-> Pulled("r1", W1, "workflow").sync]}

InitW3 == {NoDir,
           \* authored locally, never synced
           [dsl |-> Dsl(W3, "workflow", 2), sync |-> NoFile],
           \* copied by hand with a placeholder id
           [dsl |-> Dsl(W3, "advanced-chat", 2),
            sync |-> [Sync("local-1", "advanced-chat", 0, Dsl(W3, "advanced-chat", 2))
                      EXCEPT !.local_hash = <<>>]],
           \* copied by hand with the id blanked out
           [dsl |-> Dsl(W3, "workflow", 2),
            sync |-> [Sync(" ", "workflow", 0, Dsl(W3, "workflow", 2))
                      EXCEPT !.local_hash = <<>>]],
           \* app.yml removed by hand
           [dsl |-> NoFile, sync |-> Pulled("r3", W3, "workflow").sync],
           \* .sync.yml damaged by hand
           [dsl |-> Dsl(W3, "workflow", 1), sync |-> Malformed]}

InitR1 == {NoApp, RemoteApp(W1, "workflow", 1, 1), RemoteApp(W1, "workflow", 3, 2)}
InitR2 == {NoApp, RemoteApp(W2, "chat", 1, 1), RemoteApp(W1, "workflow", 1, 1)}
InitR3 == {NoApp, RemoteApp(W3, "workflow", 1, 1), RemoteApp(Wsp3, "workflow", 1, 1)}

Studio(a, c) == [d \in Dirs |-> CASE d = W1 -> a [] d = W3 -> c [] OTHER -> NoDir]

Remote(a, b, c) ==
    [id \in RemoteIds |-> CASE id = "r1" -> a [] id = "r2" -> b [] OTHER -> c]

LocalInit == {Studio(a, c) : a \in InitW1, c \in InitW3}

RemoteInit == {Remote(a, b, c) : a \in InitR1, b \in InitR2, c \in InitR3}

\* every studio folder is explored against these remotes, and every remote
\* against these studio folders
RemoteAnchors ==
    {Remote(RemoteApp(W1, "workflow", 1, 1), RemoteApp(W2, "chat", 1, 1), NoApp),
     Remote(RemoteApp(W1, "workflow", 3, 2), NoApp, NoApp),
     Remote(NoApp, RemoteApp(W1, "workflow", 1, 1), NoApp)}

LocalAnchors ==
    {Studio(NoDir, NoDir),
     Studio(Pulled("r1", W1, "workflow"), [dsl |-> Dsl(W3, "workflow", 2), sync |-> NoFile])}

EmptyKnowledge == [files |-> [f \in KFiles |-> NoFile], manifest |-> NoFile]

InitApps ==
    \E l \in LocalInit, r \in RemoteInit :
        /\ l \in LocalAnchors \/ r \in RemoteAnchors
        /\ local = l
        /\ remote = r

InitNoKnowledge ==
    /\ knowledge = EmptyKnowledge
    /\ kremote = [up |-> TRUE, datasets |-> {}, docs |-> <<>>]

\* the remote registries answer, with the listing the local files hold
AllUp == [n \in RegistryNames \ {"knowledge"} |-> [snapshot |-> 1]]

\* the directory and .platform.yml createPlatform writes for name and url
PlatformDir(name, url) == [config |-> [name |-> name, url |-> url]]

\* two platforms on disk, each under its own URL
TwoPlatforms ==
    [d \in PlatformDirs |->
        CASE d = PlatformPath("P1") -> PlatformDir(PlatformPath("P1"), UrlU)
          [] d = PlatformPath("P2") -> PlatformDir(PlatformPath("P2"), UrlV)
          [] OTHER -> NoDir]

\* const apiClients = new Map()
NoClients == [k \in ClientKeys |-> NoClient]

InitPlatforms ==
    /\ platforms = TwoPlatforms
    /\ apiClients = NoClients
    /\ inflight = {}

InitCommon ==
    /\ InitPlatforms
    /\ regRemote = AllUp
    /\ now = 0
    /\ calls = <<>>
    /\ lastOp = Op("init", NoDirArg, "ok", "", FALSE, NoDirArg, {}, {})

\* no platform has an account
InitNoAccounts ==
    /\ root = [gitignore |-> NoFile, accounts |-> [sl \in Slots |-> NoDir]]
    /\ cloud = [sl \in Slots |-> [password |-> "pw1", workspaces |-> <<>>]]

Init ==
    /\ InitApps /\ InitNoKnowledge /\ InitCommon /\ InitNoAccounts
    /\ registries = [n \in RegistryNames |-> NoFile]

Next == PullWorkspace \/ PullApp \/ PushApp

Spec == Init /\ [][Next]_vars

\* ------------------------------------------------------------------------
\* Properties of the app handlers
\* ------------------------------------------------------------------------


PushStep == lastOp'.op = "pushApp"

PullStep == lastOp'.op = "pullWorkspace" /\ lastOp'.outcome \in {"ok", "partial"}

\* the directory the step's handler was invoked on
Target == lastOp'.dir

HasSyncMetadata(loc, d) == loc[d] # NoDir /\ loc[d].sync \notin {NoFile, Malformed}

\* the app of directory d has sync metadata that names a live remote app whose
\* updated_at is not the recorded one
InConflict(loc, rem, d) ==
    /\ HasSyncMetadata(loc, d)
    /\ loc[d].sync.app_id \in RemoteApps(rem)
    /\ rem[loc[d].sync.app_id].updated_at # loc[d].sync.remote_updated_at

\* C1 (conflict law): a push of an app whose live remote updated_at differs
\* from the recorded SyncMetadata.remote_updated_at issues no import call and
\* leaves the remote as it was, unless the operator chose 'Force Push'.
C1_ConflictLaw ==
    [][(PushStep /\ InConflict(local, remote, Target) /\ lastOp'.choice # "Force Push")
         => ("importApp" \notin Range(calls') /\ remote' = remote)]_vars

\* a push in conflict that the operator cancelled
C1_Witness ==
    /\ lastOp.op = "pushApp" /\ lastOp.conflict
    /\ lastOp.choice = "Cancel" /\ lastOp.outcome = "cancelled"

\* C2 (deletion law): after a workspace pull (a) no listed local app records a
\* non-empty remote id outside the fetched set, and (b) every fetched remote
\* app whose export succeeded is held by a local app directory.
C2_DeletionLaw ==
    (lastOp.op = "pullWorkspace" /\ lastOp.outcome \in {"ok", "partial"}) =>
        /\ \A d \in getAppsForWorkspace(local) :
              AppNode(local, d).id # "" => AppNode(local, d).id \in lastOp.fetched
        /\ \A id \in lastOp.fetched \ lastOp.failed :
              \E d \in getAppsForWorkspace(local) :
                  HasSyncMetadata(local, d) /\ local[d].sync.app_id = id

\* C3 (status law): an app directory reports 'synced' exactly when its sync
\* metadata exists and the hash of its current content equals local_hash, and
\* 'local-modified' otherwise.
C3_StatusLaw ==
    \A d \in Dirs : local[d] # NoDir =>
        LET hashMatches == /\ HasSyncMetadata(local, d)
                           /\ local[d].dsl # NoFile
                           /\ computeHash(local[d].dsl) = local[d].sync.local_hash
        IN getAppSyncStatus(local, d) = (IF hashMatches THEN "synced"
                                         ELSE "local-modified")

\* the studio folder without the time of the last sync
Timeless(loc) ==
    [d \in Dirs |-> IF HasSyncMetadata(loc, d)
                    THEN [loc[d] EXCEPT !.sync.last_synced_at = 0] ELSE loc[d]]

\* C4 (idempotence): a complete workspace pull that directly follows a
\* complete workspace pull, the remote unchanged and nothing edited in
\* between, leaves the local entities, their content and their sync metadata
\* as the first pull left them (the time of the sync is not counted).
C4_Idempotence ==
    [][(lastOp.op = "pullWorkspace" /\ lastOp.outcome = "ok"
        /\ lastOp'.op = "pullWorkspace" /\ lastOp'.outcome = "ok")
         => (Timeless(local') = Timeless(local) /\ knowledge' = knowledge
             /\ registries' = registries)]_vars

\* a listed app without any recorded remote id
IsOrphan(loc, d) == d \in getAppsForWorkspace(loc) /\ AppNode(loc, d).id = ""

NameOnRemote(rem, name) == \E id \in RemoteApps(rem) : rem[id].name = name

\* the directory holds what a pull of remote app id writes
HoldsExport(loc, rem, d, id) ==
    /\ loc[d] # NoDir
    /\ loc[d].dsl = exportApp(rem, id).dsl
    /\ HasSyncMetadata(loc, d)
    /\ loc[d].sync.app_id = id
    /\ loc[d].sync.remote_updated_at = rem[id].updated_at
    /\ loc[d].sync.local_hash = computeHash(exportApp(rem, id).dsl)

\* Scenario A: W1 is the local copy of the remote app named W1, W3 is an
\* orphan, W2 is not there yet, a remote app is named W2, and no two remote
\* apps have the same name
ScenarioA(loc, rem) ==
    /\ HasSyncMetadata(loc, W1) /\ loc[W1].dsl # NoFile
    /\ loc[W1].sync.app_id \in RemoteApps(rem)
    /\ rem[loc[W1].sync.app_id].name = W1
    /\ IsOrphan(loc, W3)
    /\ loc[W2] = NoDir
    /\ NameOnRemote(rem, W2)
    /\ \A i, j \in RemoteApps(rem) : rem[i].name = rem[j].name => i = j

\* C6 (orphan rule): a pull removes an app without recorded remote id only
\* when no remote app has its name; in Scenario A a complete pull leaves W1
\* updated from its remote app, W2 created, and W3 removed exactly when no
\* remote app is named W3.
C6_OrphanRule ==
    [][PullStep =>
        /\ \A d \in Dirs : (IsOrphan(local, d) /\ local'[d] = NoDir)
                              => ~NameOnRemote(remote, d)
        /\ (ScenarioA(local, remote) /\ lastOp'.outcome = "ok") =>
              /\ HoldsExport(local', remote, W1, local[W1].sync.app_id)
              /\ \E id \in RemoteApps(remote) :
                    remote[id].name = W2 /\ HoldsExport(local', remote, W2, id)
              /\ (local'[W3] = NoDir) <=> ~NameOnRemote(remote, W3)]_vars

\* Scenario A was pulled in full and the orphan W3 is gone
C6_Witness ==
    /\ lastOp.op = "pullWorkspace" /\ lastOp.outcome = "ok"
    /\ local[W3] = NoDir
    /\ \E i, j \in lastOp.fetched :
          /\ HoldsExport(local, remote, W1, i) /\ remote[i].name = W1
          /\ HoldsExport(local, remote, W2, j) /\ remote[j].name = W2
    /\ local[W1].sync.last_synced_at = now

\* C8 (unsupported push): a push of an app whose type is not workflow or
\* chatflow issues no remote call and changes no local file.
C8_UnsupportedPush ==
    [][(PushStep /\ AppNode(local, Target).appType \notin {"workflow", "chatflow"})
         => (calls' = <<>> /\ local' = local /\ remote' = remote
             /\ knowledge' = knowledge /\ registries' = registries)]_vars

\* a chatbot app was pushed and rejected
C8_Witness ==
    /\ lastOp.op = "pushApp" /\ lastOp.outcome = "unsupported"
    /\ local[lastOp.dir].sync.app_type = "chatbot"

\* the recorded id of the app is absent, blank or a placeholder
NoUsableId(loc, d) ==
    \/ ~HasSyncMetadata(loc, d)
    \/ loc[d].sync.app_id \in {"", " ", "local-1"}

\* call a comes strictly before every call b of the log
Before(cs, a, b) ==
    \A i \in 1..Len(cs) : cs[i] = b => \E j \in 1..(i - 1) : cs[j] = a

\* C9 (placeholder push): a push of an app without usable remote id imports
\* only after it created the app on the remote; when it succeeds, the import
\* went into the created app and the sync metadata at the app's path records
\* the id the create call returned.
C9_PlaceholderPush ==
    [][(PushStep /\ NoUsableId(local, Target)) =>
        /\ Before(calls', "createApp", "importApp")
        /\ lastOp'.outcome = "ok" =>
              LET newId == FreshId(remote) IN
              /\ "createApp" \in Range(calls') /\ "importApp" \in Range(calls')
              /\ remote[newId] = NoApp /\ remote'[newId] # NoApp
              /\ remote'[newId].body = local[Target].dsl.body
              /\ remote'[newId].name = local[Target].dsl.name
              /\ local'[lastOp'.path].sync.app_id = newId]_vars

\* a placeholder app was created on the remote and synced
C9_Witness ==
    /\ lastOp.op = "pushApp" /\ lastOp.outcome = "ok"
    /\ calls = <<"login", "createApp", "importApp", "exportApp", "getAppDetail">>
    /\ local[lastOp.path].sync.app_id \in RemoteApps(remote)

\* C10 (strict push): a push that fails leaves every local file as it was.
C10_StrictPush ==
    [][(PushStep /\ lastOp'.outcome = "failed")
         => (local' = local /\ knowledge' = knowledge /\ registries' = registries)]_vars

\* ------------------------------------------------------------------------
\* Initial states of the knowledge specification: a dataset directory and
\* remote documents drawn from bounded sets, no apps
\* ------------------------------------------------------------------------

Seg(position, content) == [position |-> position, content |-> content]

Doc(id, name, segments) == [id |-> id, name |-> name, segments |-> segments]

Texts == {<<"x">>, <<"x", "y">>, <<"y", "x">>}

\* the three segments of Scenario B
ScenarioB ==
    << Seg(1, <<"T","h","e"," ","q","u","i","c","k"," ","b","r","o","w","n"," ","f","o","x">>),
       Seg(2, <<" ","b","r","o","w","n"," ","f","o","x"," ","j","u","m","p","s">>),
       Seg(3, <<" ","j","u","m","p","s"," ","o","v","e","r"," ","t","h","e"," ","d","o","g">>) >>

ScenarioBMerged ==
    <<"T","h","e"," ","q","u","i","c","k"," ","b","r","o","w","n"," ","f","o","x",
      " ","j","u","m","p","s"," ","o","v","e","r"," ","t","h","e"," ","d","o","g">>

\* segment lists of the first remote document: none, one, or two segments in
\* or out of position order, and Scenario B
SegLists ==
    {<<>>, ScenarioB}
    \cup {<<Seg(1, a)>> : a \in Texts}
    \cup {<<Seg(p[1], a), Seg(p[2], b)>> :
            a \in Texts, b \in Texts, p \in {<<1, 2>>, <<2, 1>>}}

\* the second remote document: absent, or one that lands in the file of the
\* first, or one with an extension of its own
SecondDocs ==
    {<<>>, <<Doc("x2", <<"a">>, <<Seg(1, <<"y">>)>>)>>,
     <<Doc("x2", <<"b", ".", "m">>, <<Seg(1, <<"y">>), Seg(2, <<"y", "x">>)>>)>>}

RemoteDocLists ==
    {<<>>} \cup {<<Doc("x1", <<"a">>, segs)>> \o second :
                    segs \in SegLists, second \in SecondDocs}

ManifestEntry(id, name, isLocal) ==
    [id |-> id, name |-> name, file |-> DocFile(name), is_local |-> isLocal]

Manifest(documents) ==
    [dataset_id |-> DatasetId, dataset_name |-> DatasetName, last_synced_at |-> 0,
     documents |-> documents]

File(text) == [text |-> text]

\* dataset directories: never pulled; pulled with document a, untouched or
\* edited since; pulled, with a document authored locally next to it
InitKnowledgeDirs ==
    {EmptyKnowledge,
     [files |-> [f \in KFiles |-> IF f = DocFile(<<"a">>) THEN File(<<"x">>) ELSE NoFile],
      manifest |-> Manifest(<<ManifestEntry("x1", <<"a">>, FALSE)>>)],
     [files |-> [f \in KFiles |-> IF f = DocFile(<<"a">>) THEN File(<<"z">>) ELSE NoFile],
      manifest |-> Manifest(<<ManifestEntry("x1", <<"a">>, FALSE)>>)],
     [files |-> [f \in KFiles |-> IF f = DocFile(<<"n">>) THEN File(<<"z">>) ELSE NoFile],
      manifest |-> Manifest(<<ManifestEntry("local-1", <<"n">>, TRUE)>>)]}

\* the answers of the remote registries: all up; the dataset listing down;
\* one or two of the others down while the rest changed since the last pull
RegistryFetches ==
    {[up |-> TRUE, rr |-> AllUp],
     [up |-> FALSE, rr |-> AllUp],
     [up |-> TRUE, rr |-> [AllUp EXCEPT !["models"] = Down,
                                        !["tools"] = [snapshot |-> 2]]],
     [up |-> TRUE, rr |-> [AllUp EXCEPT !["models"] = [snapshot |-> 2],
                                        !["tools"] = Down, !["plugins"] = Down]]}

InitKnowledge ==
    /\ knowledge \in InitKnowledgeDirs
    /\ \E docs \in RemoteDocLists, listed \in BOOLEAN, f \in RegistryFetches :
          /\ kremote = [up |-> f.up, datasets |-> IF listed THEN {DatasetId} ELSE {},
                        docs |-> docs]
          /\ regRemote = f.rr
    /\ registries \in {[n \in RegistryNames |-> NoFile],
                       [n \in RegistryNames |->
                           [snapshot |-> IF n = "knowledge" THEN {DatasetId} ELSE 1]]}
    /\ local = [d \in Dirs |-> NoDir]
    /\ remote = [id \in RemoteIds |-> NoApp]

NextKnowledge == PullWorkspace \/ PullKnowledge

InitK ==
    /\ InitKnowledge
    /\ InitPlatforms
    /\ now = 0
    /\ calls = <<>>
    /\ lastOp = Op("init", NoDirArg, "ok", "", FALSE, NoDirArg, {}, {})
    /\ InitNoAccounts

SpecKnowledge == InitK /\ [][NextKnowledge]_vars

\* ------------------------------------------------------------------------
\* Initial states of the account specifications
\* ------------------------------------------------------------------------

\* dataset directories of a listed dataset: never pulled; pulled with
\* document a; pulled, with document b.m authored locally since; damaged
InitDocumentDirs ==
    {EmptyKnowledge,
     [files |-> [f \in KFiles |-> IF f = DocFile(<<"a">>) THEN File(<<"x">>) ELSE NoFile],
      manifest |-> Manifest(<<ManifestEntry("x1", <<"a">>, FALSE)>>)],
     [files |-> [f \in KFiles |->
                   IF f = DocFile(<<"a">>) THEN File(<<"x">>)
                   ELSE IF f = DocFile(<<"b", ".", "m">>) THEN File(<<"y">>) ELSE NoFile],
      manifest |-> Manifest(<<ManifestEntry("x1", <<"a">>, FALSE),
                              ManifestEntry("local-0", <<"b", ".", "m">>, TRUE)>>)],
     [files |-> [f \in KFiles |-> IF f = DocFile(<<"a">>) THEN File(<<"x">>) ELSE NoFile],
      manifest |-> Malformed]}

InitDocuments ==
    /\ knowledge \in InitDocumentDirs
    /\ \E docs \in {<<>>, <<Doc("x1", <<"a">>, <<Seg(1, <<"x">>)>>)>>},
          listed \in BOOLEAN :
          kremote = [up |-> TRUE, datasets |-> IF listed THEN {DatasetId} ELSE {},
                     docs |-> docs]
    /\ registries = [n \in RegistryNames |->
                        [snapshot |-> IF n = "knowledge" THEN {DatasetId} ELSE 1]]
    /\ local = [d \in Dirs |-> NoDir]
    /\ remote = [id \in RemoteIds |-> NoApp]
    /\ InitCommon
    /\ InitNoAccounts

NextDocuments == CreateKnowledgeDocument \/ PushKnowledge \/ PullKnowledge

SpecDocuments == InitDocuments /\ [][NextDocuments]_vars

RemoteWs(id, name) == [id |-> id, name |-> name, role |-> "owner"]

Ws(id, name) ==
    [config |-> [id |-> id, name |-> name, role |-> "owner"],
     studio |-> EmptyStudio, registries |-> NoRegistries]

WsTree(a, b) ==
    [d \in WsDirs |-> CASE d = sanitizeName(WsNameA) -> a
                        [] d = sanitizeName(WsNameB) -> b
                        [] OTHER -> NoDir]

Account(email, secret, ws) == [email |-> email, secret |-> secret, ws |-> ws]

\* the one app of the tenant the accounts belong to
TenantApps == Remote(RemoteApp(W1, "workflow", 1, 1), NoApp, NoApp)

\* ignore lists found at the workspace root before the first account
GitInits ==
    {NoFile, [text |-> <<>>], [text |-> <<"x", "\n">>], [text |-> <<"x">>],
     [text |-> <<"\n", "x", "\n", "\n">>],
     [text |-> <<Rule, "\n">>], [text |-> <<"x", "\n", Rule, "\n">>],
     [text |-> <<"#", Rule, "\n">>], [text |-> <<"x", Rule, "\n">>],
     [text |-> <<Rule, "\n", Rule, "\n">>]}

InitCloudLists ==
    {<<>>, <<RemoteWs("w1", WsNameA)>>,
     <<RemoteWs("w1", WsNameA), RemoteWs("w2", WsNameB)>>,
     <<RemoteWs("w2", WsNameA)>>,
     <<RemoteWs("w1", WsNameA), RemoteWs("w2", WsNameA)>>}

\* no account yet, any ignore list
InitSecrets ==
    /\ root \in {[gitignore |-> g, accounts |-> [sl \in Slots |-> NoDir]] :
                    g \in GitInits}
    /\ \E wss \in {<<>>, <<RemoteWs("w1", WsNameA)>>,
                   <<RemoteWs("w1", WsNameA), RemoteWs("w2", WsNameB)>>} :
          cloud = [sl \in Slots |-> [password |-> "pw1", workspaces |-> wss]]
    /\ remote \in {TenantApps, [id \in RemoteIds |-> NoApp]}
    /\ local = EmptyStudio
    /\ registries = NoRegistries
    /\ InitNoKnowledge
    /\ InitCommon

NextSecrets == AddAccount \/ EditAccount \/ DeleteAccount

SpecSecrets == InitSecrets /\ [][NextSecrets]_vars

\* the workspaces account a of platform P1 holds before a pull
InitAccountTrees ==
    {NoWorkspaces, WsTree(Ws("w1", WsNameA), NoDir), WsTree(Ws("w3", WsNameA), NoDir),
     WsTree(Ws("w1", WsNameA), Ws("w2", WsNameB)), WsTree(NoDir, Ws("w1", WsNameB))}

\* the sibling account of platform P1: pullable, without secrets file, or
\* with a password the remote rejects
InitSiblings ==
    {Account(EmailB, DumpSecrets("pw1"), NoWorkspaces),
     Account(EmailB, NoFile, NoWorkspaces),
     Account(EmailB, DumpSecrets("pw2"), NoWorkspaces)}

InitPull ==
    /\ \E tree \in InitAccountTrees, sibling \in InitSiblings,
          other \in {NoDir, Account(EmailA, DumpSecrets("pw1"), NoWorkspaces)} :
          root = [gitignore |-> [text |-> <<Rule, "\n">>],
                  accounts |-> [sl \in Slots |->
                      IF sl = Slot("P1", EmailA)
                      THEN Account(EmailA, DumpSecrets("pw1"), tree)
                      ELSE IF sl = Slot("P1", EmailB) THEN sibling ELSE other]]
    /\ \E wss \in InitCloudLists :
          cloud = [sl \in Slots |->
                      [password |-> "pw1",
                       workspaces |-> IF sl = Slot("P1", EmailA) THEN wss
                                      ELSE IF sl = Slot("P1", EmailB)
                                      THEN <<RemoteWs("w3", WsNameB)>>
                                      ELSE <<RemoteWs("w1", WsNameA)>>]]
    /\ remote = TenantApps
    /\ local = EmptyStudio
    /\ registries = NoRegistries
    /\ InitNoKnowledge
    /\ InitCommon

\* what the disk can hold in the place of a platform: nothing, a file, a
\* directory without .platform.yml or with one that cannot be read or loaded
BrokenPlatforms ==
    {NoDir, PlainFile, [config |-> NoFile], [config |-> Malformed],
     [config |-> Unreadable]}

\* the platform directories at start: P1 is a platform, P2 is one or is
\* broken, and a hidden directory may hold a .platform.yml of its own
InitPlatformDirs ==
    {[d \in PlatformDirs |->
         CASE d = PlatformPath("P1") -> PlatformDir(PlatformPath("P1"), UrlU)
           [] d = PlatformPath("P2") -> second
           [] d = HiddenDir -> hidden
           [] OTHER -> NoDir] :
       second \in BrokenPlatforms
                  \cup {PlatformDir(PlatformPath("P2"), UrlV),
                        PlatformDir(PlatformPath("P2"), UrlU)},
       hidden \in {NoDir, PlatformDir(HiddenDir, UrlV)}}

\* studio folders: a synced app, an app whose .sync.yml cannot be loaded, a
\* directory without app.yml and a hidden directory with one
StoreStudio ==
    [d \in Dirs |->
        CASE d = W1 -> [dsl |-> Dsl(W1, "workflow", 1),
                        sync |-> Sync("r1", "workflow", 1, Dsl(W1, "workflow", 1))]
          [] d = W2 -> [dsl |-> Dsl(W2, "workflow", 1), sync |-> Malformed]
          [] d = W3 -> [dsl |-> NoFile, sync |-> NoFile]
          [] d = HiddenDir -> [dsl |-> Dsl(W1, "workflow", 1), sync |-> NoFile]
          [] OTHER -> NoDir]

\* workspace directories: one well formed with the studio above, one whose
\* .workspace.yml is missing or cannot be read or loaded, one hidden
StoreTrees ==
    {[d \in WsDirs |->
         CASE d = sanitizeName(WsNameA) -> [Ws("w1", WsNameA) EXCEPT !.studio = StoreStudio]
           [] d = sanitizeName(WsNameB) -> [Ws("w2", WsNameB) EXCEPT !.config = c]
           [] OTHER -> Ws("w3", WsNameB)] :
       c \in {NoFile, Malformed, Unreadable, Ws("w2", WsNameB).config}}

InitStore ==
    /\ platforms \in InitPlatformDirs
    /\ apiClients = NoClients
    /\ inflight = {}
    /\ \E tree \in StoreTrees :
          root = [gitignore |-> [text |-> <<Rule, "\n">>],
                  accounts |-> [sl \in Slots |->
                      IF sl = Slot("P1", EmailA)
                      THEN Account(EmailA, DumpSecrets("pw1"), tree)
                      ELSE IF sl = Slot("P2", EmailA) /\ isDirectory(platforms[PlatformPath("P2")])
                      THEN Account(EmailA, DumpSecrets("pw1"), NoWorkspaces)
                      ELSE NoDir]]
    /\ cloud = [sl \in Slots |-> [password |-> "pw1",
                                   workspaces |-> <<RemoteWs("w1", WsNameA)>>]]
    /\ remote = TenantApps
    /\ local = EmptyStudio
    /\ registries = NoRegistries
    /\ InitNoKnowledge
    /\ regRemote = AllUp
    /\ now = 0
    /\ calls = <<>>
    /\ lastOp = Op("init", NoDirArg, "ok", "", FALSE, NoDirArg, {}, {})

NextStore ==
    AddPlatform \/ EditPlatform \/ DeletePlatform \/ DeleteAccount \/ PullAccount

SpecStore == InitStore /\ [][NextStore]_vars

NextPull == PullAccount \/ PullPlatform \/ PullAll \/ RenameRemoteWorkspace

SpecPull == InitPull /\ [][NextPull]_vars

\* ------------------------------------------------------------------------
\* Properties of the knowledge handlers
\* ------------------------------------------------------------------------

\* a step of a handler that pulls knowledge documents
KnowledgePullStep == lastOp'.op \in {"pullKnowledge", "pullWorkspace"}

\* C5 (local-first law): a document file that exists before a pull holds the
\* same content after it, whatever segments the remote returns.
C5_LocalFirst ==
    [][KnowledgePullStep =>
         \A f \in KFiles : knowledge.files[f] # NoFile
                              => knowledge'.files[f] = knowledge.files[f]]_vars

\* a knowledge pull completed and the edited file of document a is not what
\* the fetched segments of the document stitch to
C5_Witness ==
    /\ lastOp.op = "pullKnowledge" /\ lastOp.outcome = "ok" /\ lastOp.failed = {}
    /\ knowledge.files[DocFile(<<"a">>)] = File(<<"z">>)
    /\ kremote.docs # <<>>
    /\ kremote.docs[1].name = <<"a">>
    /\ StitchSegments(kremote.docs[1].segments, DefaultChunkOverlap) # <<"z">>
    /\ knowledge.manifest.last_synced_at = now

\* the longest prefix of cur that is a suffix of prev
OverlapLength(prev, cur) ==
    LET ks == {k \in 0..Min(Len(prev), Len(cur)) :
                  SubSeq(cur, 1, k) = SubSeq(prev, Len(prev) - k + 1, Len(prev))}
    IN CHOOSE k \in ks : \A j \in ks : j <= k

\* every segment after the first begins with text that ends the one before
ChainOverlaps(sorted) ==
    \A i \in 2..Len(sorted) : OverlapLength(sorted[i - 1].content, sorted[i].content) > 0

\* the first segment followed by the part of each later segment that does
\* not repeat the end of the one before
RECURSIVE JoinedWithoutOverlap(_)
JoinedWithoutOverlap(sorted) ==
    IF Len(sorted) <= 1 THEN (IF sorted = <<>> THEN <<>> ELSE sorted[1].content)
    ELSE LET n == Len(sorted)
         IN JoinedWithoutOverlap(SubSeq(sorted, 1, n - 1))
            \o SliceFrom(sorted[n].content,
                         OverlapLength(sorted[n - 1].content, sorted[n].content))

\* the i-th fetched document is written by the pull step: its segments were
\* fetched, its file did not exist, no earlier document of the list has that file
WrittenByPull(i) ==
    /\ lastOp'.outcome = "ok"
    /\ lastOp'.op = "pullKnowledge"
    /\ kremote.docs[i].id \in lastOp'.fetched
    /\ kremote.docs[i].id \notin lastOp'.failed
    /\ knowledge.files[DocFile(kremote.docs[i].name)] = NoFile
    /\ \A j \in 1..(i - 1) : DocFile(kremote.docs[j].name) # DocFile(kremote.docs[i].name)

\* C7 (segment stitching): a document written from segments that overlap
\* one after the other is the first segment followed by the non-overlapping
\* remainder of each later one, nothing inserted at the joins; the segments of
\* Scenario B give "The quick brown fox jumps over the dog".
C7_Stitching ==
    [][\A i \in 1..Len(kremote.docs) :
          LET sorted == SortByPosition(kremote.docs[i].segments)
              text == knowledge'.files[DocFile(kremote.docs[i].name)].text
          IN (WrittenByPull(i) /\ sorted # <<>> /\ ChainOverlaps(sorted)) =>
                /\ text = JoinedWithoutOverlap(sorted)
                /\ kremote.docs[i].segments = ScenarioB => text = ScenarioBMerged]_vars

\* ------------------------------------------------------------------------
\* Properties of the account and workspace handlers
\* ------------------------------------------------------------------------

\* the accounts a multi-account pull step ranges over
Scope ==
    IF lastOp'.op = "pullAll" THEN {sl \in Slots : root.accounts[sl] # NoDir}
    ELSE getAccountsForPlatform(root.accounts, lastOp'.dir)

\* C11 (account isolation): in a pull over several accounts (pullAll,
\* pullPlatform) every account of the scope whose password is stored and
\* accepted, and whose own login call does not fail, is pulled, whatever
\* happens to the other accounts.
C11_AccountIsolation ==
    [][lastOp'.op \in {"pullAll", "pullPlatform"} =>
         \A sl \in Scope :
            (CanLogin(root.accounts, cloud, sl) /\ sl \notin lastOp'.failed)
               => sl \in lastOp'.fetched]_vars

\* the lines of the ignore list that are the secrets pattern itself
PatternLines(gitignore) ==
    IF gitignore = NoFile THEN {}
    ELSE {i \in 1..Len(gitignore.text) :
             /\ gitignore.text[i] = Rule
             /\ i = 1 \/ gitignore.text[i - 1] = "\n"
             /\ i = Len(gitignore.text) \/ gitignore.text[i + 1] = "\n"}

\* the last handler ran createAccount
CreatedAccount == lastOp.op = "addAccount" /\ lastOp.outcome # "refused"

\* C12 (secrets exclusion): after createAccount the ignore list of the
\* workspace root holds the pattern '**/.secrets.yml' exactly once, and
\* whenever an account has a secrets file the ignore list holds the pattern.
C12_SecretsExclusion ==
    /\ CreatedAccount => Cardinality(PatternLines(root.gitignore)) = 1
    /\ (\E sl \in Slots : root.accounts[sl] # NoDir /\ root.accounts[sl].secret # NoFile)
          => PatternLines(root.gitignore) # {}

\* ------------------------------------------------------------------------
\* Further properties of the app handlers
\* ------------------------------------------------------------------------

\* the app of directory d has content that matches its recorded hash
LocalUnchanged(loc, d) ==
    /\ HasSyncMetadata(loc, d)
    /\ loc[d].dsl # NoFile
    /\ computeHash(loc[d].dsl) = loc[d].sync.local_hash

\* C13 (three-state status): an app with content and sync metadata is
\* 'local-modified' when its content differs from the recorded hash,
\* 'remote-modified' when the content is unchanged and the remote's updated_at
\* is not the recorded one, and 'synced' otherwise.
C13_ThreeStateStatus ==
    \A d \in Dirs :
       (HasSyncMetadata(local, d) /\ local[d].dsl # NoFile) =>
          getAppSyncStatus(local, d) =
             IF ~LocalUnchanged(local, d) THEN "local-modified"
             ELSE IF InConflict(local, remote, d) THEN "remote-modified"
             ELSE "synced"

\* the last handler stored the password lastOp.choice for account lastOp.dir
StoredPassword ==
    \/ CreatedAccount
    \/ lastOp.op = "editAccount" /\ lastOp.choice # NoPassword

\* C14 (secret at rest): after createAccount or updateAccount with password
\* p the secrets file of the account does not hold p in the clear, and
\* getAccountPassword returns p.
C14_SecretAtRest ==
    StoredPassword =>
       /\ lastOp.choice \notin Range(root.accounts[lastOp.dir].secret.text)
       /\ getAccountPassword(root.accounts[lastOp.dir]) = lastOp.choice

\* the last handler was an account pull, single or in a loop
AccountPull == lastOp.op \in {"pullAccount", "pullPlatform", "pullAll"}

\* the remote workspace ids of the account stored in slot sl
RemoteWorkspaceIds(sl) ==
    LET wss == cloud[Slot(sl[1], root.accounts[sl].email)].workspaces
    IN {wss[i].id : i \in 1..Len(wss)}

\* the workspace directories of slot sl that record remote id
DirsOfWorkspace(sl, id) ==
    {d \in WsDirs : root.accounts[sl].ws[d] # NoDir
                    /\ root.accounts[sl].ws[d].config.id = id}

\* C15 (workspace upsert by remote id): after an account pull every remote
\* workspace id of the account is recorded by exactly one local workspace
\* directory, also when the remote renamed the workspace since the last pull.
C15_WorkspaceById ==
    AccountPull =>
       \A sl \in lastOp.fetched : \A id \in RemoteWorkspaceIds(sl) :
          Cardinality(DirsOfWorkspace(sl, id)) = 1

\* C16 (workspace deletion pass): after pullAccountData completes no local
\* workspace records a remote id outside the returned set, and every remote
\* workspace of the returned set has a local directory that records its id.
C16_WorkspaceDeletion ==
    AccountPull =>
       \A sl \in lastOp.fetched :
          /\ \A d \in WsDirs : root.accounts[sl].ws[d] # NoDir =>
                root.accounts[sl].ws[d].config.id \in RemoteWorkspaceIds(sl)
          /\ \A id \in RemoteWorkspaceIds(sl) : DirsOfWorkspace(sl, id) # {}

\* C17 (post-push convergence): after a successful push the directory the
\* push ends in holds the content the remote exports for the pushed app, with
\* local_hash the hash of that content and remote_updated_at the export's
\* updated_at; the app's status is 'synced' and a push that follows at once
\* meets no conflict.
C17_PostPushConvergence ==
    (lastOp.op = "pushApp" /\ lastOp.outcome = "ok") =>
       /\ HasSyncMetadata(local, lastOp.path)
       /\ local[lastOp.path].sync.app_id \in RemoteApps(remote)
       /\ HoldsExport(local, remote, lastOp.path, local[lastOp.path].sync.app_id)
       /\ getAppSyncStatus(local, lastOp.path) = "synced"
       /\ ~InConflict(local, remote, lastOp.path)

\* a forced push over a remote change succeeded: the remote app was updated
\* after the recorded pull and the import moved its updated_at once more
C17_Witness ==
    /\ lastOp.op = "pushApp" /\ lastOp.outcome = "ok"
    /\ lastOp.conflict /\ lastOp.choice = "Force Push"
    /\ HasSyncMetadata(local, lastOp.path)
    /\ local[lastOp.path].sync.app_id \in RemoteApps(remote)
    /\ remote[local[lastOp.path].sync.app_id].updated_at > 1

\* a successful push that ended in another directory than the one it began in
RenamedByPush ==
    /\ PushStep
    /\ lastOp'.outcome = "ok"
    /\ lastOp'.path # lastOp'.dir

\* C18 (rename on push): when the remote name after a successful push differs
\* from the local directory's name, the pushed app is found in the directory
\* of the sanitized remote name, with the exported content and with its own
\* SyncMetadata (remote id, type, readonly); the old directory is gone and
\* the files of every other local app are as they were.
C18_RenameOnPush ==
    [][RenamedByPush =>
         LET d == lastOp'.dir
             to == lastOp'.path
             was == AppNode(local, d)
         IN /\ HasSyncMetadata(local', to)
            /\ local'[to].sync.app_id \in RemoteApps(remote')
            /\ to = sanitizeName(remote'[local'[to].sync.app_id].name)
            /\ HoldsExport(local', remote', to, local'[to].sync.app_id)
            /\ ~NoUsableId(local, d) => local'[to].sync.app_id = was.id
            /\ local'[to].sync.app_type = was.appType
            /\ local'[to].sync.readonly = was.readonly
            /\ local'[d] = NoDir
            /\ \A e \in Dirs \ {d} :
                  local[e] # NoDir => local'[e] = local[e]]_vars

\* the app directory d records the id of a remote app
RecordsRemoteId(loc, d) == HasSyncMetadata(loc, d) /\ ~NoUsableId(loc, d)

\* the step reported the entity with id y as one it could not place
ReportedTo(y) == lastOp'.outcome \in {"failed", "cancelled"} \/ y \in lastOp'.failed

\* C19 (no silent merge on name collision): a directory that holds an app
\* with one remote id is never left holding an app with another remote id by
\* a save or a rename that targets its name, unless the handler reported that
\* it could not place the incoming app; the app that was there keeps its
\* content and metadata.
C19_NoSilentMerge ==
    [][\A d \in Dirs :
          (/\ RecordsRemoteId(local, d)
           /\ RecordsRemoteId(local', d)
           /\ local'[d].sync.app_id # local[d].sync.app_id)
          => ReportedTo(local'[d].sync.app_id)]_vars

\* a workspace pull in which the export or the save of some app failed
PartialPullStep == lastOp'.op = "pullWorkspace" /\ lastOp'.failed # {}

\* the directories the failed apps of the step would have been saved in
FailedDirs == {sanitizeName(remote[id].name) : id \in lastOp'.failed}

\* the fetched app id alone claims its directory: no other fetched app has
\* its sanitized name and the directory was not listed under another id
ClaimsItsDirectory(id) ==
    LET d == sanitizeName(remote[id].name) IN
    /\ \A other \in lastOp'.fetched \ {id} : sanitizeName(remote[other].name) # d
    /\ d \in getAppsForWorkspace(local) => AppNode(local, d).id \in {"", id}

\* C20 (per-app failure isolation): when the export or the save of one remote
\* app fails during a workspace pull, the pull still completes; every other
\* fetched app is upserted, the deletion pass treats every directory the
\* failed apps do not target as a pull without failure does, and the four
\* registries are refreshed.
C20_FailureIsolation ==
    [][PartialPullStep =>
         /\ lastOp'.outcome = "partial"
         /\ \A id \in lastOp'.fetched \ lastOp'.failed :
               ClaimsItsDirectory(id) =>
                  HoldsExport(local', remote', sanitizeName(remote[id].name), id)
         /\ \E order \in Perms(lastOp'.fetched) :
               \A d \in Dirs \ FailedDirs :
                  local'[d] = PullApps(local, remote, order, {}, now')[d]
         /\ registries' = PullRegistries(registries, regRemote, kremote)
         /\ \A c \in {"getAllModels", "getAllKnowledge", "getAllTools", "getAllPlugins"} :
               c \in Range(calls')]_vars

\* a pull in which one app failed and another fetched app was saved by the
\* same pull
C20_Witness ==
    /\ lastOp.op = "pullWorkspace"
    /\ lastOp.outcome = "partial"
    /\ \E id \in lastOp.fetched \ lastOp.failed :
          /\ HoldsExport(local, remote, sanitizeName(remote[id].name), id)
          /\ local[sanitizeName(remote[id].name)].sync.last_synced_at = now

\* the account pull of the step threw out of the app listing of a workspace
WorkspacePullFailed == lastOp'.op = "pullAccount" /\ lastOp'.choice = "getAllApps"

\* the account of slot sl as pullAccountData leaves it when no call throws
PulledWithoutFailure(sl) ==
    pullAccountData(root.accounts[sl], cloud, sl[1], remote, regRemote, kremote,
                    "none", 0, CHOOSE o \in Perms(RemoteApps(remote)) : TRUE, {},
                    now').acct

\* C21 (sibling workspace isolation): when the pull of one workspace fails
\* during an account pull, every other workspace directory of the account is
\* left as the pull without that failure leaves it: the remaining remote
\* workspaces are processed and the local workspaces absent from the remote
\* set are deleted.
C21_SiblingWorkspaces ==
    [][WorkspacePullFailed =>
         \E failedDir \in WsDirs :
            \A d \in WsDirs \ {failedDir} :
               root'.accounts[lastOp'.dir].ws[d]
                  = PulledWithoutFailure(lastOp'.dir).ws[d]]_vars

\* ------------------------------------------------------------------------
\* Properties of the registries and of the knowledge bases
\* ------------------------------------------------------------------------

\* a workspace pull that got past the login and the app listing
WorkspacePulled == lastOp'.op = "pullWorkspace" /\ lastOp'.outcome # "failed"

\* the remote fetch of registry n does not succeed in full
FetchFails(n) == IF n = "knowledge" THEN ~kremote.up ELSE regRemote[n] = Down

\* what a fetch of registry n that succeeds in full returns
FetchedInFull(n) ==
    IF n = "knowledge" THEN [snapshot |-> kremote.datasets] ELSE regRemote[n]

\* C22 (registries: overwrite on success, non-fatal): in a workspace pull a
\* registry whose remote fetch fails keeps the file stored before, a registry
\* whose fetch succeeds holds the fetched listing, and the failure of one
\* registry does not keep the pull from asking for the others.
C22_RegistryRefresh ==
    [][WorkspacePulled =>
         /\ \A n \in RegistryNames :
               registries'[n] = IF FetchFails(n) THEN registries[n]
                                ELSE FetchedInFull(n)
         /\ \A c \in {"getAllModels", "getAllKnowledge", "getAllTools", "getAllPlugins"} :
               c \in Range(calls')]_vars

\* the dataset directory carries a sync manifest, and the registry the pull
\* fetched lists the dataset of that manifest
PulledInFullAndListed ==
    /\ knowledge.manifest \notin {NoFile, Malformed}
    /\ knowledge.manifest.dataset_id \in registries'["knowledge"].snapshot

\* C23 (lazy knowledge sync): a workspace pull asks for the documents of the
\* dataset exactly when the dataset was pulled in full before and the fetched
\* registry still lists it, and then saves what it fetched through the merge
\* engine; for a dataset that is only listed, the pull leaves the dataset
\* directory as it is: no directory, document file or manifest is created.
C23_LazyKnowledge ==
    [][WorkspacePulled =>
         /\ ("getDatasetDocuments" \in Range(calls')) <=> PulledInFullAndListed
         /\ PulledInFullAndListed =>
               \E docsFail \in BOOLEAN, segFail \in SUBSET DocIds(kremote) :
                  knowledge' = saveKnowledgeDocuments(
                                   knowledge, knowledge.manifest.dataset_id,
                                   knowledge.manifest.dataset_name,
                                   FetchedDocuments(kremote, docsFail, segFail), now')
         /\ ~PulledInFullAndListed => knowledge' = knowledge]_vars

\* a workspace pull met a dataset with documents that the registry lists and
\* that was never pulled in full: the registry file names the dataset and the
\* dataset directory is still absent
C23_Witness ==
    /\ lastOp.op = "pullWorkspace" /\ lastOp.outcome = "ok"
    /\ registries["knowledge"] # NoFile
    /\ DatasetId \in registries["knowledge"].snapshot
    /\ knowledge = EmptyKnowledge
    /\ Len(kremote.docs) > 0

\* the text that ends with the sorted segments stitched in the way of the
\* code, a paragraph break at every join, when the prefix dropped from a
\* segment is the longest one that equals a suffix of the window at the end of
\* the accumulated output, and nothing is dropped when there is none
RECURSIVE StitchedBySuffix(_, _)
StitchedBySuffix(content, rest) ==
    IF rest = <<>> THEN content
    ELSE LET cur == Head(rest).content
             window == SliceLast(content, DefaultChunkOverlap * 2)
         IN StitchedBySuffix(
                content \o ParagraphBreak \o SliceFrom(cur, OverlapLength(window, cur)),
                Tail(rest))

\* C24 (stitching without overlap loses nothing): in a document written from
\* segments, the part dropped from the head of a segment is the longest prefix
\* of it that equals a suffix of the accumulated output; a segment no prefix
\* of which equals such a suffix is appended in full after a paragraph break.
C24_NothingLost ==
    [][\A i \in 1..Len(kremote.docs) :
          LET sorted == SortByPosition(kremote.docs[i].segments)
              text == knowledge'.files[DocFile(kremote.docs[i].name)].text
          IN (WrittenByPull(i) /\ sorted # <<>>) =>
                text = StitchedBySuffix(sorted[1].content, Tail(sorted))]_vars

\* the entries of a manifest file, none when the file is absent or unreadable
Entries(manifest) ==
    IF manifest \in {NoFile, Malformed} THEN {} ELSE Range(manifest.documents)

\* a pull step that reached saveKnowledgeDocuments: the manifest is rewritten
SavedKnowledge ==
    /\ KnowledgePullStep
    /\ knowledge'.manifest \notin {NoFile, Malformed}
    /\ knowledge'.manifest.last_synced_at = now'

\* C25 (local-only document preservation): after saveKnowledgeDocuments every
\* entry of the previous manifest that is marked is_local and whose id is not
\* among the fetched document ids is in the new manifest, still marked
\* is_local, whatever the fetched set, the empty one included.
C25_LocalOnlyKept ==
    [][SavedKnowledge =>
         \A e \in Entries(knowledge.manifest) :
            (e.is_local /\ e.id \notin DocIds(kremote))
               => e \in Entries(knowledge'.manifest)]_vars

\* a pull that fetched no document rewrote a manifest that holds an entry of
\* a document authored locally
C25_Witness ==
    /\ lastOp.op \in {"pullKnowledge", "pullWorkspace"}
    /\ kremote.docs = <<>>
    /\ knowledge.manifest \notin {NoFile, Malformed}
    /\ knowledge.manifest.last_synced_at = now
    /\ now > 0
    /\ \E e \in Entries(knowledge.manifest) : e.is_local

\* the manifest entries of documents authored locally that the pushKnowledge
\* step created on the remote
CreatedByPush ==
    IF lastOp'.op = "pushKnowledge" /\ lastOp'.outcome = "ok"
    THEN {e \in Entries(knowledge.manifest) :
             isLocalOnlyDocument(e) /\ e.id \in lastOp'.fetched}
    ELSE {}

\* C26 (placeholder id lifecycle): after pushKnowledge created a document
\* authored locally on the remote, the manifest entry of the document holds
\* the id of a remote document and is no longer local-only (neither is_local
\* nor a 'local-*' id), so that a further push does not create it again.
C26_PlaceholderLifecycle ==
    [][\A e \in CreatedByPush :
          \A after \in Entries(knowledge'.manifest) :
             after.file = e.file =>
                /\ ~isLocalOnlyDocument(after)
                /\ after.id \in DocIds(kremote')]_vars

\* ------------------------------------------------------------------------
\* Properties of the store and of the client cache
\* ------------------------------------------------------------------------

\* the account directories on disk, and the workspace directories in them
AccountsOnDisk == {sl \in Slots : root.accounts[sl] # NoDir}
WorkspacesOnDisk(sl) == {d \in WsDirs : root.accounts[sl].ws[d] # NoDir}

\* a record that is there and that yaml.load turns into a mapping
Loads(record) == record \notin {NoFile, Malformed, Unreadable}

\* what the listings of one level have in common: hidden children and
\* children without a record, or with one that does not load, are left out,
\* and every other directory is in the list
ListsTheWellFormed(listed, children, record(_)) ==
    /\ \A d \in children : startsWithDot(d) => d \notin listed
    /\ \A d \in children : ~Loads(record(d)) => d \notin listed
    /\ \A d \in children : ~startsWithDot(d) /\ Loads(record(d)) => d \in listed

PlatformRecord(d) == platforms[d].config

SyncRecord(studio, d) == studio[d].sync

SlotsIn(d) == {sl \in Slots : PlatformPath(sl[1]) = d}

\* every account directory lies in a directory
AccountsInDirectories ==
    \A sl \in AccountsOnDisk : isDirectory(platforms[PlatformPath(sl[1])])

\* C28: delete is recursive and idempotent.  In every state the store gets
\* into, for every platform, account, workspace and app path: after the
\* delete the path and all that lay below it are absent and every other
\* path holds what it held; deleting once more gives the same store, and
\* deleting an absent path gives the store back as it was.
C28_DeleteIdempotent ==
    /\ AccountsInDirectories
    /\ \A d \in PlatformDirs :
          LET r == deletePlatform(platforms, root.accounts, d) IN
          /\ r.plats[d] = NoDir
          /\ \A sl \in SlotsIn(d) : r.accounts[sl] = NoDir
          /\ \A e \in PlatformDirs \ {d} : r.plats[e] = platforms[e]
          /\ \A sl \in Slots \ SlotsIn(d) : r.accounts[sl] = root.accounts[sl]
          /\ deletePlatform(r.plats, r.accounts, d) = r
          /\ platforms[d] = NoDir =>
                r = [plats |-> platforms, accounts |-> root.accounts]
    /\ \A sl \in Slots :
          LET r == deleteAccount(root.accounts, sl) IN
          /\ r[sl] = NoDir
          /\ \A other \in Slots \ {sl} : r[other] = root.accounts[other]
          /\ deleteAccount(r, sl) = r
          /\ root.accounts[sl] = NoDir => r = root.accounts
    /\ \A sl \in AccountsOnDisk : \A d \in WsDirs :
          LET acct == root.accounts[sl]
              r == deleteWorkspace(acct, d)
          IN /\ r.ws[d] = NoDir
             /\ \A e \in WsDirs \ {d} : r.ws[e] = acct.ws[e]
             /\ r.email = acct.email /\ r.secret = acct.secret
             /\ deleteWorkspace(r, d) = r
             /\ acct.ws[d] = NoDir => r = acct
    /\ \A sl \in AccountsOnDisk : \A w \in WorkspacesOnDisk(sl) : \A d \in Dirs :
          LET studio == root.accounts[sl].ws[w].studio
              r == deleteApp(studio, d)
          IN /\ r[d] = NoDir
             /\ \A e \in Dirs \ {d} : r[e] = studio[e]
             /\ deleteApp(r, d) = r
             /\ studio[d] = NoDir => r = studio

\* platform P1, which held an account with workspaces and apps, has been
\* deleted: nothing of it is left, and the other platform is as it was
C28_Witness ==
    /\ lastOp.op = "deletePlatform" /\ lastOp.outcome = "ok"
    /\ lastOp.dir = PlatformPath("P1")
    /\ platforms[PlatformPath("P1")] = NoDir
    /\ \A sl \in SlotsIn(PlatformPath("P1")) : root.accounts[sl] = NoDir
    /\ now = 1
    /\ root.accounts[Slot("P2", EmailA)] # NoDir

\* the sanitized names of the platforms listed in plats, other than except
TakenNames(plats, except) ==
    {sanitizeName(PlatformNode(plats, d).name) : d \in getAllPlatforms(plats) \ except}

UniqueNames(plats) ==
    \A d \in getAllPlatforms(plats) :
        sanitizeName(PlatformNode(plats, d).name) \notin TakenNames(plats, {d})

\* an addPlatform that went on to createPlatform with a name whose sanitized
\* form a platform has
CreatesTakenName ==
    /\ lastOp'.op = "addPlatform" /\ lastOp'.outcome # "cancelled"
    /\ lastOp'.dir \in TakenNames(platforms, {})

\* C29: after every createPlatform, updatePlatform (edit of name and URL)
\* and deletePlatform no two platforms have the same sanitized name, and a
\* createPlatform with a name whose sanitized form is taken fails and
\* leaves the platforms as they were.
C29_NameUniqueness ==
    [][/\ UniqueNames(platforms) => UniqueNames(platforms')
       /\ CreatesTakenName => lastOp'.outcome = "failed" /\ platforms' = platforms]_vars

\* the keys under which a client is cached
Cached(clients) == {k \in ClientKeys : clients[k] # NoClient}

\* the command deletePlatform has removed the platform directory d
DeletedPlatform(d) ==
    /\ lastOp'.op = "deletePlatform" /\ lastOp'.outcome = "ok"
    /\ lastOp'.dir = d

\* C30: at any time there is at most one cached client per normalized
\* platform URL, the one made for that URL; getApiClient returns the same
\* instance for the same normalized URL, so a client that stays cached is the
\* one made first; and once a platform is deleted no cached client holds
\* tokens of an account of that platform.
C30_SessionLifecycle ==
    [][/\ \A k \in Cached(apiClients') :
             apiClients'[k].baseUrl = k /\ NormalizeUrl(k) = k
       /\ \A k \in Cached(apiClients) \cap Cached(apiClients') :
             lastOp'.op # "deletePlatform" => apiClients'[k].made = apiClients[k].made
       /\ \A d \in PlatformDirs : DeletedPlatform(d) =>
             \A k \in Cached(apiClients') : apiClients'[k].tokens \notin SlotsIn(d)]_vars

\* ------------------------------------------------------------------------
\* The two phases of an import
\* ------------------------------------------------------------------------

Last(cs) == cs[Len(cs)]

\* the content a push of directory d submits has been applied to a remote app
\* in this step
ImportCompleted(d) ==
    LET dsl == readAppDsl(local, d) IN
    \E id \in RemoteApps(remote') :
        /\ remote'[id] # remote[id]
        /\ remote'[id].name = dsl.name
        /\ remote'[id].body = dsl.body

Resynchronised(loc, rem, d, id) ==
    HoldsExport(loc, rem, d, id) /\ getAppSyncStatus(loc, d) = "synced"

\* C32: after a pull that exported a remote app, pullApp of its item or a
\* workspace pull, a local app holds the exported content with SyncMetadata of
\* that remote id, the export's updated_at and the hash of the exported
\* content, and reports 'synced', whatever the local content was before.
C32_PullResynchronises ==
    [][/\ (lastOp'.op = "pullApp" /\ lastOp'.outcome = "ok")
          => Resynchronised(local', remote, lastOp'.dir, AppNode(local, lastOp'.dir).id)
       /\ PullStep
          => \A id \in lastOp'.fetched \ lastOp'.failed :
                \E d \in getAppsForWorkspace(local') :
                    Resynchronised(local', remote, d, id)]_vars

\* the part of C32 that is about pullApp alone
C32_PullAppResynchronises ==
    [][(lastOp'.op = "pullApp" /\ lastOp'.outcome = "ok")
          => Resynchronised(local', remote, lastOp'.dir,
                            AppNode(local, lastOp'.dir).id)]_vars
\* ------------------------------------------------------------------------
\* Workspace pulls while the remote apps change
\* ------------------------------------------------------------------------

\* another party renames, creates, deletes or edits an app on the platform;
\* the app list of the next pull (getAllApps) shows the change
RemoteAppChange ==
    /\ now < MaxTime
    /\ now' = now + 1
    /\ UNCHANGED inflight
    /\ UNCHANGED <<local, knowledge, registries, kremote, regRemote, root, platforms,
                 apiClients, cloud>>
    /\ calls' = <<>>
    /\ \/ \E id \in RemoteApps(remote), name \in Names :
            /\ remote[id].name # name
            /\ remote' = [remote EXCEPT ![id].name = name,
                                        ![id].updated_at = @ + 1]
            /\ lastOp' = Op("remoteRename", NoDirArg, "ok", "", FALSE, NoDirArg, {id}, {})
       \/ \E name \in Names, mode \in {"workflow", "chat"}, id \in RemoteIds :
            \* the platform gives a new app an id that was never in use
            /\ remote[id] = NoApp
            /\ \A d \in Dirs : HasSyncMetadata(local, d) => local[d].sync.app_id # id
            /\ remote' = [remote EXCEPT ![id] = [name |-> name, mode |-> mode,
                                                  body |-> 0, updated_at |-> 1]]
            /\ lastOp' = Op("remoteCreate", NoDirArg, "ok", "", FALSE, NoDirArg, {id}, {})
       \/ \E id \in RemoteApps(remote) :
            /\ remote' = [remote EXCEPT ![id] = NoApp]
            /\ lastOp' = Op("remoteDelete", NoDirArg, "ok", "", FALSE, NoDirArg, {id}, {})
       \/ \E id \in RemoteApps(remote) :
            /\ remote' = [remote EXCEPT ![id].body = @ + 1,
                                        ![id].updated_at = @ + 1]
            /\ lastOp' = Op("remoteEdit", NoDirArg, "ok", "", FALSE, NoDirArg, {id}, {})

NextRemoteEdits == PullWorkspace \/ RemoteAppChange

SpecRemoteEdits == Init /\ [][NextRemoteEdits]_vars

\* the listed local apps that record remote id
LocalAppsOf(loc, id) ==
    {d \in getAppsForWorkspace(loc) : HasSyncMetadata(loc, d) /\ loc[d].sync.app_id = id}

\* C33: whatever workspace pulls and remote renames, creations and deletions
\* have happened, no two local app directories of the workspace record the
\* same remote app id.
C33_OneLocalAppPerRemoteId ==
    \A id \in RemoteIds : Cardinality(LocalAppsOf(local, id)) <= 1
\* ------------------------------------------------------------------------
\* The workspace an account pull fetches from
\* ------------------------------------------------------------------------

\* the workspace the session of an account points at after login: the one
\* the workspace list marks current, listed first
CurrentTenant(wss) == wss[1].id

\* the apps that belong to remote workspace id: the remote apps are those of
\* the current workspace, the other workspaces of the account hold none
RemoteAppsOfWorkspace(rem, wss, id) ==
    IF id = CurrentTenant(wss) THEN RemoteApps(rem) ELSE {}

\* the remote ids the apps of a studio folder record
StoredAppIds(studio) == {AppNode(studio, d).id : d \in getAppsForWorkspace(studio)}

\* C34: after an account pull that met no failure and got the workspace list
\* in full, the directory of each
\* remote workspace (names distinct) holds the apps that belong to that
\* remote workspace.
C34_AppsInOwnWorkspace ==
    (lastOp.op = "pullAccount" /\ lastOp.outcome = "ok" /\ lastOp.failed = {}
     /\ lastOp.choice # "profile") =>
        LET acct == root.accounts[lastOp.dir]
            wss == cloud[Slot(lastOp.dir[1], acct.email)].workspaces
        IN \A i \in 1..Len(wss) :
              (\A j \in 1..Len(wss) : wss[j].name = wss[i].name => j = i)
              => StoredAppIds(acct.ws[sanitizeName(wss[i].name)].studio)
                   = RemoteAppsOfWorkspace(remote, wss, wss[i].id)
\* ------------------------------------------------------------------------
\* Deletion of workspaces and the listing it rests on
\* ------------------------------------------------------------------------

\* the step is an account pull whose workspace list request failed and whose
\* listing came from the account profile
PulledFromProfile ==
    lastOp'.op = "pullAccount" /\ lastOp'.outcome = "ok" /\ lastOp'.choice = "profile"

\* C35: an account pull whose workspace listing is the fallback to the account
\* profile (the current workspace only) deletes no local workspace: every
\* workspace directory listed before the pull is there after it.
C35_NoDeletionFromPartialListing ==
    [][PulledFromProfile
         => \A d \in getWorkspacesForAccount(root.accounts[lastOp'.dir]) :
                root'.accounts[lastOp'.dir].ws[d] # NoDir]_vars
\* ------------------------------------------------------------------------
\* Account pulls whose awaits interleave on the cached client
\* ------------------------------------------------------------------------

\* the steps two interleaved handler runs are followed for
MaxSessionSteps == 3

\* what the platform answers to a request of the run for account sl that
\* carries the cookies of the client: the workspaces of the account the
\* tokens were issued to
SessionView(cl, sl, owner) == [cl EXCEPT ![sl].workspaces = cl[owner].workspaces]

\* pullAccountData up to the await of client.login: the password is read,
\* the client of the platform URL is taken from the cache and the login
\* stores the tokens of the account in it
BeginPullAccount ==
    /\ now < MaxSessionSteps
    /\ now' = now + 1
    /\ UNCHANGED <<local, knowledge, registries, remote, kremote, regRemote, root,
                 platforms, cloud>>
    /\ \E sl \in Slots :
         /\ root.accounts[sl] # NoDir
         /\ ListedPlatform(platforms, sl[1])
         /\ \A o \in inflight : o.sl # sl
         /\ LET password == getAccountPassword(root.accounts[sl])
                success == /\ password # NoPassword
                           /\ login(cloud, sl[1], root.accounts[sl].email, password)
            IN /\ apiClients' = IF password = NoPassword THEN apiClients
                                ELSE Connect(apiClients, PlatformUrl(platforms, sl[1]),
                                             sl, success, now')
               /\ inflight' = IF success
                              THEN inflight \cup {[op |-> "pullAccount", sl |-> sl]}
                              ELSE inflight
               /\ calls' = <<>>
               /\ lastOp' = Op("login", sl, IF success THEN "ok" ELSE "failed", "",
                               FALSE, NoDirArg, {}, {})

\* pullAccountData from getWorkspaces on, for a run that has logged in: every
\* request goes out with the tokens the shared client holds by now
FinishPullAccount ==
    /\ now < MaxSessionSteps
    /\ now' = now + 1
    /\ UNCHANGED <<local, knowledge, registries, remote, kremote, regRemote,
                 platforms, apiClients, cloud>>
    /\ \E o \in inflight :
         LET sl == o.sl
             owner == apiClients[NormalizeUrl(PlatformUrl(platforms, sl[1]))].tokens
             order == CHOOSE q \in Perms(RemoteApps(remote)) : TRUE
             r == pullAccountData(root.accounts[sl], SessionView(cloud, sl, owner),
                                  sl[1], remote, regRemote, kremote, "none", 0, order,
                                  {}, now')
         IN /\ root' = [root EXCEPT !.accounts[sl] = r.acct]
            /\ inflight' = inflight \ {o}
            /\ calls' = <<>>
            /\ lastOp' = Op("pullAccountData", sl, IF r.thrown THEN "failed" ELSE "ok",
                            "", FALSE, owner, {sl}, {})

NextSessions == BeginPullAccount \/ FinishPullAccount

SpecSessions == InitPull /\ [][NextSessions]_vars

\* the ids of the remote workspaces of the account of slot sl
RemoteWorkspaceIdsOf(sl) ==
    LET wss == cloud[sl].workspaces IN {wss[i].id : i \in 1..Len(wss)}

\* C36: when account pulls of one platform URL interleave at their awaits,
\* the remote calls of each run are made under the session of its own
\* account, and the workspaces it stores in the account's tree are workspaces
\* of that account.
C36_SessionIdentity ==
    (lastOp.op = "pullAccountData" /\ lastOp.outcome = "ok") =>
        /\ lastOp.path = lastOp.dir
        /\ \A d \in getWorkspacesForAccount(root.accounts[lastOp.dir]) :
              root.accounts[lastOp.dir].ws[d].config.id \in RemoteWorkspaceIdsOf(lastOp.dir)
\* ------------------------------------------------------------------------
\* A push while another party edits the remote app
\* ------------------------------------------------------------------------

\* pushApp up to its prompt: the conflict check reads the live updated_at of
\* the app and compares it with the recorded one; the run goes on when there
\* is no conflict or the operator answers 'Force Push'
BeginPushApp ==
    /\ now < MaxSessionSteps
    /\ now' = now + 1
    /\ UNCHANGED <<local, knowledge, registries, remote, kremote, regRemote, root,
                 platforms, cloud>>
    /\ inflight = {}
    /\ \E d \in getAppsForWorkspace(local) :
         LET data == AppNode(local, d)
             syncMeta == getAppSyncMetadata(local, d)
         IN /\ ~data.readonly /\ data.appType \in PushableTypes
            /\ ~isLocalOnly(data.id)
            /\ syncMeta # Null
            /\ data.id \in RemoteApps(remote)
            /\ \E choice \in ConflictAnswers(local, remote, d) :
                 LET live == getAppDetail(remote, data.id).updatedAt
                     conflict == live # syncMeta.remote_updated_at
                     proceeds == ~conflict \/ ProceedsAfterConflict(choice)
                 IN /\ inflight' = IF proceeds
                                   THEN {[op |-> "pushApp", dir |-> d, id |-> data.id,
                                          conflict |-> conflict, seen |-> live]}
                                   ELSE {}
                    /\ apiClients' = SessionAfter(apiClients, StudioUrl(platforms),
                                                  <<"login", "getAppDetail">>, FALSE,
                                                  now')
                    /\ calls' = <<"login", "getAppDetail">>
                    /\ lastOp' = Op("checkPush", d,
                                    IF proceeds THEN "ok" ELSE "cancelled",
                                    choice, conflict, d, {}, {})

\* pushApp after its prompt: login, import, detail, export and the local
\* writes, on the remote as it is by now
FinishPushApp ==
    /\ now < MaxSessionSteps
    /\ now' = now + 1
    /\ UNCHANGED <<knowledge, registries, kremote, regRemote, root, platforms, cloud>>
    /\ \E o \in inflight, fault \in FailPoints \ {"check", "create"} :
         LET r == PushStage(local, remote, now', o.dir, TRUE, fault,
                            <<"login", "getAppDetail">>, o.conflict)
         IN /\ local' = r.loc
            /\ remote' = r.rem
            /\ calls' = r.calls
            /\ inflight' = inflight \ {o}
            /\ apiClients' = SessionAfter(apiClients, StudioUrl(platforms), r.calls,
                                          fault = "login", now')
            /\ lastOp' = Op("pushApp", o.dir, r.outcome, "", o.conflict, r.path, {}, {})

NextRace == BeginPushApp \/ FinishPushApp \/ RemoteAppChange

SpecRace == Init /\ [][NextRace]_vars

\* C37: a push that met no conflict at its check (no force signal) does not
\* overwrite a modification another party made to the remote app after the
\* check read the live updated_at: the import leaves that app as it is.
C37_NoOverwriteOfRemoteEdit ==
    [][\A o \in inflight \ inflight' :
          (/\ ~o.conflict
           /\ o.id \in RemoteApps(remote)
           /\ remote[o.id].updated_at # o.seen)
          => remote'[o.id] = remote[o.id]]_vars
\* ------------------------------------------------------------------------
\* A knowledge pull after a pull whose segment fetch failed
\* ------------------------------------------------------------------------

\* the last handler was a knowledge pull in which the segment fetch of remote
\* document i failed and which wrote the document's file, empty, for want of
\* a local one
WrittenEmptyAfterFailure(i) ==
    /\ lastOp.op = "pullKnowledge" /\ lastOp.outcome = "ok"
    /\ kremote.docs[i].id \in lastOp.failed
    /\ knowledge.files[DocFile(kremote.docs[i].name)] = File(<<>>)
    /\ \A j \in 1..Len(kremote.docs) :
          DocFile(kremote.docs[j].name) = DocFile(kremote.docs[i].name) => j = i

\* the step is a knowledge pull that fetches the segments of remote document i
FetchedByPull(i) ==
    /\ lastOp'.op = "pullKnowledge" /\ lastOp'.outcome = "ok"
    /\ kremote.docs[i].id \in lastOp'.fetched \ lastOp'.failed

\* C38: when the segment fetch of a remote document failed in one knowledge
\* pull and the document had no local file, a later pull that fetches the
\* segments leaves the file with the content stitched from them.
C38_ConvergesAfterFailure ==
    [][\A i \in 1..Len(kremote.docs) :
          (WrittenEmptyAfterFailure(i) /\ FetchedByPull(i))
          => knowledge'.files[DocFile(kremote.docs[i].name)]
               = File(StitchSegments(kremote.docs[i].segments, DefaultChunkOverlap))]_vars
\* ------------------------------------------------------------------------
\* A gateway request answered 401 (response interceptor of DifyApiClient)
\* ------------------------------------------------------------------------

\* the steps one gateway call is followed for
MaxRequestSteps == 4

\* the client of the studio's platform, in the cache
StudioClient == apiClients[NormalizeUrl(StudioUrl(platforms))]

\* refreshAccessToken: POST /console/api/refresh-token; a platform that accepts
\* the refresh token issues new tokens to the same account, one that rejects
\* it answers with an error, which the call throws
refreshAccessToken(client, accepted) ==
    [client |-> client, thrown |-> ~accepted]

\* the studio account has logged in: the cached client holds its tokens
InitRetry ==
    /\ InitApps /\ InitNoKnowledge /\ InitNoAccounts
    /\ registries = [n \in RegistryNames |-> NoFile]
    /\ platforms = TwoPlatforms
    /\ apiClients = Connect(NoClients, StudioUrl(TwoPlatforms), StudioAccount, TRUE, 0)
    /\ inflight = {}
    /\ regRemote = AllUp
    /\ now = 0
    /\ calls = <<>>
    /\ lastOp = Op("init", NoDirArg, "ok", "", FALSE, NoDirArg, {}, {})

\* a handler issues a gateway request through the client; the request
\* interceptor attaches the tokens the client holds
Request ==
    /\ now < MaxRequestSteps
    /\ now' = now + 1
    /\ UNCHANGED <<local, knowledge, registries, remote, kremote, regRemote, root,
                 platforms, apiClients, cloud>>
    /\ inflight = {}
    /\ inflight' = {[op |-> "request", sent |-> 1]}
    /\ calls' = <<"request">>
    /\ lastOp' = Op("request", NoDirArg, "sent", "", FALSE, NoDirArg, {}, {})

\* the answer to the request in flight reaches the response interceptor: a
\* success is returned; a 401 while a refresh token is held refreshes the
\* tokens and sends the request again through the same client, and a refresh
\* that throws clears the tokens and fails the call; any other error fails it
Response ==
    /\ now < MaxRequestSteps
    /\ now' = now + 1
    /\ UNCHANGED <<local, knowledge, registries, remote, kremote, regRemote, root,
                 platforms, cloud>>
    /\ \E o \in inflight :
         \/ /\ inflight' = {}
            /\ UNCHANGED <<apiClients, calls>>
            /\ lastOp' = Op("request", NoDirArg, "ok", "", FALSE, NoDirArg, {}, {})
         \/ \* an error other than 401, or a 401 while no refresh token is held
            /\ inflight' = {}
            /\ UNCHANGED <<apiClients, calls>>
            /\ lastOp' = Op("request", NoDirArg, "failed", "", FALSE, NoDirArg, {}, {})
         \/ /\ StudioClient.tokens # NoTokens
            /\ \E accepted \in BOOLEAN :
                 LET r == refreshAccessToken(StudioClient, accepted) IN
                 IF r.thrown
                 THEN /\ apiClients' = [apiClients EXCEPT
                            ![NormalizeUrl(StudioUrl(platforms))].tokens = NoTokens]
                      /\ inflight' = {}
                      /\ calls' = calls \o <<"refresh-token">>
                      /\ lastOp' = Op("request", NoDirArg, "failed", "", FALSE,
                                      NoDirArg, {}, {})
                 ELSE /\ apiClients' = [apiClients EXCEPT
                            ![NormalizeUrl(StudioUrl(platforms))] = r.client]
                      /\ inflight' = {[o EXCEPT !.sent = @ + 1]}
                      /\ calls' = calls \o <<"refresh-token", "request">>
                      /\ lastOp' = Op("request", NoDirArg, "retried", "", FALSE,
                                      NoDirArg, {}, {})

NextRetry == Request \/ Response

SpecRetry == InitRetry /\ [][NextRetry]_vars

\* C39: a gateway request answered 401 while a refresh token is held is sent
\* again at most once: no call is sent more than twice, so a call whose retry
\* is again answered 401 has failed.
C39_BoundedRetry ==
    \A o \in inflight : o.op = "request" => o.sent <= 2
====
